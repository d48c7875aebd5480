---------------------------- MODULE MCMailPress ----------------------------
(* An instance of MailPress for TLC: one page, pressed more than once.      *)
EXTENDS MailPress

CONSTANTS a1, a2, p1, f1, hello
TwoAttempts == {a1, a2}
OneRequest == {p1}
OnePage == {f1}
OneWording == {hello}
ShowsHello == [f \in OnePage |-> hello]
=============================================================================
