------------------------------- MODULE MCTools -------------------------------
(* A document that is cut for the knowledge base, or a portfolio workflow. *)
EXTENDS PortfolioReco, TextChunks

\* Four sentences of every length up to a chunk and a half.
MCTexts == UNION {[1..n -> {1, 3, 5, 6, 7, 9}] : n \in 0..4}

MCSectors == {"IT", "Capital Goods", "Energy"}
MCPartOf == {<<"IT", "Capital Goods">>}

\* Two sectors or three, so that weights are rounded; three risk grades.
MCFund ==
    [tech |-> [category |-> "Mid Cap", sectors |-> <<"IT">>],
     infra |-> [category |-> "Large Cap", sectors |-> <<"Capital Goods", "Energy", "FMCG">>],
     gilt |-> [category |-> "Gilt", sectors |-> <<"Debt">>],
     liquid |-> [category |-> "Liquid", sectors |-> <<"Debt">>]]

\* The first is at the threshold when IT or Energy is affected, the second is
\* above it, or just below.
MCInvestor ==
    [bob |-> [risk |-> "conservative", holdings |-> ("infra" :> 1500)],
     eve |-> [risk |-> "aggressive", holdings |-> ("tech" :> 400 @@ "infra" :> 298)]]

MCTargets ==
    [t \in {"conservative", "aggressive"} \X {"negative", "positive"} |->
        CASE t = <<"conservative", "negative">> -> {"Gilt", "Liquid"}
          [] t = <<"conservative", "positive">> -> {"Large Cap"}
          [] t = <<"aggressive", "negative">>   -> {"Large Cap"}
          [] OTHER                              -> {"Mid Cap"}]

MCCatalogues ==
    {<<"infra", "gilt", "liquid", "tech">>, <<"tech", "infra", "liquid">>, <<"gilt">>}

\* Notes shorter and longer than a message.
MCLengths == {2, 6, 11}
MCNotes == {<<a>> : a \in MCLengths} \cup {<<a, a + 2 + b>> : a, b \in MCLengths}

recoIdle == stage = "none" /\ affected = {} /\ sentiment = "none" /\ catalogue = <<>>
            /\ impact = <<>> /\ validated = <<>> /\ edits = {} /\ AlertInit

Init == \/ TextInit /\ recoIdle
        \/ /\ RecoInit
           /\ text = <<>> /\ next = 1 /\ current = Chunk(0, 1, 0, 0)
           /\ chunks = <<current>> /\ done = TRUE

Next == \/ TextNext /\ UNCHANGED <<recoVars, alertVars>>
        \/ RecoNext /\ UNCHANGED textVars

Spec == Init /\ [][Next]_<<recoVars, alertVars, textVars>>
=============================================================================
