----------------------------- MODULE MCRequests ----------------------------
(* What a request of a client passes through, for TLC.  These parts share    *)
(* no variable; one of them is chosen at the start and runs alone, so that   *)
(* one run explores the sum of their states, each as its own specification   *)
(* has it, and not the product.                                              *)
EXTENDS Conversations, Completion, ChatPage, ImageJobs, ConnPool, KeyGate, Responses, TLC

\* One answer and two pictures a day.
MCDailyLimit == [chat |-> 1, image |-> 2]

VARIABLE part

\* Only the first part has more than one initial state.
RequestsInit ==
  /\ part \in {"conversations", "completion", "page", "images", "pool", "gate", "responses"}
  /\ ConversationInit /\ CompletionInit /\ ChatPageInit /\ ImageInit /\ ConnPoolInit /\ GateInit
  /\ ResponsesInit
  /\ part # "conversations" => \A c, d \in Chat : keyOf[c] = keyOf[d]

RequestsNext ==
  /\ UNCHANGED part
  /\ \/ /\ part = "conversations" /\ ConversationNext
        /\ UNCHANGED <<completionVars, pageVars, imageVars, poolVars, gateVars, responsesVars>>
     \/ /\ part = "completion" /\ CompletionNext
        /\ UNCHANGED <<conversationVars, pageVars, imageVars, poolVars, gateVars, responsesVars>>
     \/ /\ part = "page" /\ ChatPageNext
        /\ UNCHANGED <<conversationVars, completionVars, imageVars, poolVars, gateVars, responsesVars>>
     \/ /\ part = "images" /\ ImageNext
        /\ UNCHANGED <<conversationVars, completionVars, pageVars, poolVars, gateVars, responsesVars>>
     \/ /\ part = "pool" /\ ConnPoolNext
        /\ UNCHANGED <<conversationVars, completionVars, pageVars, imageVars, gateVars, responsesVars>>
     \/ /\ part = "gate" /\ GateNext
        /\ UNCHANGED <<conversationVars, completionVars, pageVars, imageVars, poolVars, responsesVars>>
     \/ /\ part = "responses" /\ ResponsesNext
        /\ UNCHANGED <<conversationVars, completionVars, pageVars, imageVars, poolVars, gateVars>>

RequestsSpec ==
  RequestsInit /\ [][RequestsNext]_<<part, conversationVars, completionVars, pageVars, imageVars,
                                     poolVars, gateVars, responsesVars>>

\* The variables of the part that runs hold values of their types.
RequestsTypeOK ==
  CASE part = "conversations" -> ConversationTypeOK
    [] part = "completion" -> CompletionTypeOK
    [] part = "page" -> ChatPageTypeOK
    [] part = "images" -> ImageTypeOK
    [] part = "pool" -> ConnPoolTypeOK
    [] part = "gate" -> GateTypeOK
    [] part = "responses" -> ResponsesTypeOK

\* Actors are interchangeable, and so are what they act on.  Whatever their roles
\* in the parts, they have the names of the chats, of the keys and of the accounts.
Symmetry == Permutations(Chat) \cup Permutations(Key) \cup Permutations(ImageAccounts)
=============================================================================
