---------------------------- MODULE MCConversation ----------------------------
(***************************************************************************)
(* Conversation for TLC, with a model and a fallback of a smaller window, and *)
(* three parts that serve it and share no state with it or each other: the    *)
(* gateway's stream, its embeddings and the lists the API reads.  A behaviour  *)
(* of one part runs with the others at rest and their states add up.          *)
(***************************************************************************)
EXTENDS Conversation, ModelGateway, EmbedCache, KeysetPages

VARIABLE part

MCWindow == <<9, 6>>
\* A short result, a long one the answer cites, a cited and an uncited one.
MCResults == {<<[size |-> 1, cited |-> FALSE]>>, <<[size |-> 4, cited |-> TRUE]>>,
              <<[size |-> 3, cited |-> TRUE], [size |-> 4, cited |-> FALSE]>>}

Parts == {"conversation", "gateway", "embeddings", "lists"}
servingVars == <<part, vars, gatewayVars, embedVars, keysetVars>>

\* A part at rest stands in one of its initial states: no summary, an empty list.
MemoryAtRest == row = NoRow
ListsAtRest == list = "audit" /\ \A i \in RowIds : ~table[i].live

ServingInit ==
    /\ part \in Parts
    /\ Init /\ GatewayInit /\ EmbedInit /\ KeysetInit
    /\ part = "conversation" \/ MemoryAtRest
    /\ part = "lists" \/ ListsAtRest

ServingNext ==
    /\ UNCHANGED part
    /\ \/ part = "conversation" /\ Next /\ UNCHANGED <<gatewayVars, embedVars, keysetVars>>
       \/ part = "gateway" /\ GatewayNext /\ UNCHANGED <<vars, embedVars, keysetVars>>
       \/ part = "embeddings" /\ EmbedNext /\ UNCHANGED <<vars, gatewayVars, keysetVars>>
       \/ part = "lists" /\ KeysetNext /\ UNCHANGED <<vars, gatewayVars, embedVars>>

ServingSpec == ServingInit /\ [][ServingNext]_servingVars
===============================================================================
