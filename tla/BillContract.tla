---------------------------- MODULE BillContract ----------------------------
(***************************************************************************)
(* What the exchange of one bill promises, whatever its messages do: of    *)
(* those who asked for it at most one is paid, or else its link is; who    *)
(* believes it was received was paid; the giver believes it was sent only  *)
(* if one of those who asked has it.                                       *)
(***************************************************************************)
CONSTANTS
    Receivers,
    Nobody, Link    \* neither is a receiver: whom an intent may pay besides one

VARIABLES
    asked,  \* the receivers whose request reached the server
    paid,   \* whom the intent under the rendezvous key pays
    told,   \* the receivers who were shown the bill as theirs
    sent    \* the giver was shown that it left

contractVars == <<asked, paid, told, sent>>

ContractInit ==
    /\ asked = {} /\ paid = Nobody /\ told = {} /\ sent = FALSE

Ask(r) ==
    /\ asked' = asked \cup {r}
    /\ UNCHANGED <<paid, told, sent>>

Pay(p) ==
    /\ paid = Nobody
    /\ p \in asked \cup {Link}
    /\ paid' = p
    /\ UNCHANGED <<asked, told, sent>>

Tell(r) ==
    /\ paid = r
    /\ told' = told \cup {r}
    /\ UNCHANGED <<asked, paid, sent>>

ConfirmSent ==
    /\ paid \in asked
    /\ sent' = TRUE
    /\ UNCHANGED <<asked, paid, told>>

ContractNext ==
    \/ \E r \in Receivers : Ask(r) \/ Tell(r)
    \/ \E p \in Receivers \cup {Link} : Pay(p)
    \/ ConfirmSent

ContractSpec == ContractInit /\ [][ContractNext]_contractVars
=============================================================================
