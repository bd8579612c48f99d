----------------------------- MODULE MCAccounts -----------------------------
(* Instances of Accounts for TLC: one campus address, one phone.            *)
EXTENDS Accounts, TLC

CONSTANTS r1, r2

Put(nickname, avatar, campus) ==
    [f \in Fields |-> CASE f = "nickname" -> nickname
                        [] f = "avatar" -> avatar
                        [] f = "campus" -> campus]

MCForms == {[f \in Required |-> "x"]}

\* One field alone, the avatar too; and all of them.
MCPuts == {Put("y", "", ""), Put("", "y", ""), Put("x", "x", "y")}

MCSymmetry == Permutations({r1, r2})

=============================================================================
