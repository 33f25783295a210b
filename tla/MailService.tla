---------------------------- MODULE MailService ----------------------------
(***************************************************************************)
(* What email by radio promises the one who wrote a mail: it is shown as   *)
(* waiting, failed or sent, and as sent only once Resend, the service that *)
(* puts it on the internet, has taken it (resend_accepted,                 *)
(* mail/gateway.rs).  It waits again only when its writer presses Retry on *)
(* a failed one.  One that is shown failed may have been taken.            *)
(***************************************************************************)
VARIABLES shown, taken

Init == shown = "waiting" /\ taken = FALSE

Take == taken' = TRUE /\ UNCHANGED shown
Confirm == taken /\ shown' = "sent" /\ UNCHANGED taken
Fail == shown' = "failed" /\ UNCHANGED taken
Retry == shown = "failed" /\ shown' = "waiting" /\ UNCHANGED taken

Next == Take \/ Confirm \/ Fail \/ Retry
Spec == Init /\ [][Next]_<<shown, taken>>
=============================================================================
