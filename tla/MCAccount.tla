------------------------------- MODULE MCAccount -------------------------------
(* Small instances of Account for TLC.                                     *)
EXTENDS Account

CONSTANTS u1, p1, p2, s1, s2, t1, w1

(* One handler serves every request; the other what may race it for a      *)
(* session or a link.                                                      *)
Racing == (p1 :> {"register", "resend", "reset", "verify", "confirm", "login",
                  "me", "logout", "revoke", "change"})
       @@ (p2 :> {"verify", "me", "cart"})

SessionIds == Permutations(Session)
===============================================================================
