----------------------------- MODULE MCMailSend -----------------------------
(* An instance of MailSend for TLC: two requests and two attempts.          *)
EXTENDS MailSend, TLC

CONSTANTS a1, a2, p1, p2, hello, thanks
TwoAttempts == {a1, a2}
TwoRequests == {p1, p2}
TwoWordings == {hello, thanks}

Symmetry == Permutations(Attempts) \cup Permutations(Requests)
            \cup Permutations(Words)
=============================================================================
