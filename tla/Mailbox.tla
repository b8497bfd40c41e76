------------------------------ MODULE Mailbox -------------------------------
(***************************************************************************)
(* What a handler may rely on when it has made a packet: all that was made   *)
(* and not sent yet is one sequence, to which a packet is added at the end,  *)
(* and from whose front one or more packets go out at a time.                *)
(*                                                                         *)
(* SendPath is shown to implement it.                                       *)
(***************************************************************************)
EXTENDS Naturals, Sequences

CONSTANT Labels   \* packets

VARIABLE mail     \* what was made and is not sent

InitMail == mail = <<>>

Post(p) == mail' = Append(mail, p)

Deliver == \E k \in 1 .. Len(mail) : mail' = SubSeq(mail, k + 1, Len(mail))

NextMail == Deliver \/ \E p \in Labels : Post(p)

MailSpec == InitMail /\ [][NextMail]_mail
=============================================================================
