------------------------------ MODULE MCClients ------------------------------
(***************************************************************************)
(* The firm's dealings with a client on small instances: the conversation  *)
(* on WhatsApp, the receipts of what it sends there, enquiries, and the    *)
(* documents clients bring. They share no state, so a behaviour of all is  *)
(* a behaviour of each; a run lets one of them move, chosen at the start.  *)
(***************************************************************************)
EXTENDS Conversation, Receipts, Enquiry, ClientPapers

VARIABLE dealing

Init ==
    /\ dealing \in {"conversation", "receipts", "enquiries", "papers"}
    /\ ConversationInit
    /\ ReceiptsInit
    /\ EnquiryInit
    /\ PapersInit
    /\ dealing # "conversation" => ~ orderly /\ ~ listed
    /\ dealing # "receipts" => ~ serial
    /\ dealing # "enquiries" => ~ singly
    /\ dealing # "papers" => ~ alike

Next ==
    /\ UNCHANGED dealing
    /\ \/ /\ dealing = "conversation" /\ ConversationNext
          /\ UNCHANGED <<receiptsVars, enquiryVars, papersVars>>
       \/ /\ dealing = "receipts" /\ ReceiptsNext
          /\ UNCHANGED <<conversationVars, enquiryVars, papersVars>>
       \/ /\ dealing = "enquiries" /\ EnquiryNext
          /\ UNCHANGED <<conversationVars, receiptsVars, papersVars>>
       \/ /\ dealing = "papers" /\ PapersNext
          /\ UNCHANGED <<conversationVars, receiptsVars, enquiryVars>>

Alone(step) ==
    /\ dealing = "conversation" /\ step
    /\ UNCHANGED <<receiptsVars, enquiryVars, papersVars>>

Spec ==
    /\ Init
    /\ [][Next]_<<dealing, conversationVars, receiptsVars, enquiryVars, papersVars>>
    /\ \A w \in Webhooks : WF_conversationVars(Alone(WebhookGoesOn(w)))
    /\ \A p \in Members : WF_conversationVars(Alone(PersonSaves(p)))
    /\ \A m \in Messages : SF_conversationVars(Alone(Redeliver(m)))
=============================================================================
