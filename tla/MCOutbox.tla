------------------------------ MODULE MCOutbox ------------------------------
(***************************************************************************)
(* What the firm sends, on small instances: the notifications of the       *)
(* outbox, and the two documents a client gets, an invoice and a quotation *)
(* with the email that carries its link. They share no state, so a         *)
(* behaviour of all is a behaviour of each; a run lets one of them move,   *)
(* chosen at the start.                                                    *)
(***************************************************************************)
EXTENDS Outbox, Settlement, Quotation, TLC

CONSTANTS e1, e2, ann, bob

\* e1 occurred before e2.
Ages == (e1 :> 1) @@ (e2 :> 2)

\* Everybody is told of both.
Everybody == [e \in Events |-> People]

\* The invoice is covered by any two of the payments; the discounts are in it.
CoveringPayments == {P \in SUBSET Payments : \E p, q \in P : p # q}

VARIABLE sending

SendingInit ==
    /\ sending \in {"notifications", "invoice", "quotation"}
    /\ Init
    /\ SettlementInit
    /\ QuotationInit
    /\ sending # "invoice" => ~ inTurn
    /\ sending # "quotation" => ~ inOrder

SendingNext ==
    /\ UNCHANGED sending
    /\ \/ sending = "notifications" /\ Next /\ UNCHANGED <<settlementVars, quotationVars>>
       \/ sending = "invoice" /\ SettlementNext /\ UNCHANGED <<vars, quotationVars>>
       \/ sending = "quotation" /\ QuotationNext /\ UNCHANGED <<vars, settlementVars>>

\* The workers' loops go on, and the job that mails a link is run.
SendingSpec ==
    /\ SendingInit
    /\ [][SendingNext]_<<sending, vars, settlementVars, quotationVars>>
    /\ \A w \in Workers : WF_vars(sending = "notifications" /\ Advance(w))
    /\ WF_quotationVars(sending = "quotation" /\ MailGoes)

\* What is to be sent is sent: an event's audience is told of it unless its
\* subscriber always fails (outbox-publisher.ts), and a quotation recorded as
\* emailed reaches the client unless its job fails for good (delivery.ts).
MailArrives == EventuallyTold /\ EmailedIsMailed
=============================================================================
