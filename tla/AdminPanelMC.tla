---------------------------- MODULE AdminPanelMC ----------------------------
(***************************************************************************)
(* The forms worth posting: the right and a wrong login, and changes that  *)
(* are too short, not confirmed, and from either password to the other.    *)
(***************************************************************************)
EXTENDS AdminPanel, TLC
CONSTANTS r1, r2, t1, t2
MCRequests == {r1, r2}
MCTokens == {t1, t2}
MCPasswords == {"admin", "first", "second"}
MCShort == {"admin"}
MCLogins == {[username |-> "admin", password |-> p] : p \in {"admin", "first"}}
                \cup {[username |-> "guest", password |-> "admin"]}
Change(p, n, c) == [password |-> p, new |-> n, confirm |-> c]
MCChanges == {Change("admin", "first", "first"), Change("admin", "second", "second"),
              Change("first", "admin", "admin"), Change("first", "second", "first"),
              Change("first", "second", "second")}
MCStrangers == {"guest"}
MCSymmetry == Permutations(MCRequests) \cup Permutations(MCTokens)
=============================================================================
