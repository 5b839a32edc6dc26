---------------------------- MODULE MCAccounts ----------------------------
(***************************************************************************)
(* Constants and symmetry for the model-checking run of Accounts.          *)
(***************************************************************************)
EXTENDS Accounts, TLC

\* A behaviour is followed as long as of links made, versions, a lock and an
\* administrator's flag, which counts twice, it has three together, or two while
\* requests overlap; and once a commit has overwritten another, when less is
\* claimed and fewer states tell it, links and versions up to two.
Bit(b) == IF b THEN 1 ELSE 0
Overlapping == \A p \in Requests : proc[p] # Idle
Shallow == \A u \in Users :
  IF fresh THEN minted + users[u].version + Bit(users[u].lock # "none")
                  + 2 * Bit(users[u].admin) + Bit(Overlapping) <= 3
  ELSE /\ users[u].lock = "none" /\ ~users[u].admin
       /\ minted + users[u].version <= 2
EachAlone == {{u} : u \in Users}
Symmetric == Permutations(Requests)
=============================================================================
