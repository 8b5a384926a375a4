--------------------------- MODULE MCNegotiation ---------------------------
(* Instances of Negotiation for TLC.                                       *)
EXTENDS Negotiation

\* NN and NK take two messages, XX three; only NK's first one has a tag.
MCProtocols == {"NN", "NK", "XX"}
MCNMsgs == [p \in MCProtocols |-> IF p = "XX" THEN 3 ELSE 2]
MCFirstTag == [p \in MCProtocols |-> IF p = "NK" THEN 0 ELSE 1]

SameApp == [s \in Side |-> "app1"]
OtherApp == [s \in Side |-> IF s = "client" THEN "app1" ELSE "app2"]
AllKeys == MCProtocols \X BOOLEAN
MCBuilds ==
  {[s \in Side |-> AllKeys]}
    \cup {[s \in Side |-> IF s = t THEN AllKeys \ {k} ELSE AllKeys] :
            t \in Side, k \in {<<"NK", FALSE>>, <<"NK", TRUE>>, <<"XX", FALSE>>}}

\* Every proposal, fallback, support list of up to two, policy and missing key.
MCConfigs ==
  { c \in [ proposed : {"NN", "XX"},
            fallback : {{"NK"}, {"XX"}, {"NN", "NK"}},
            supported : {<<"NK">>, <<"XX">>, <<"NK", "XX">>, <<"XX", "NN">>},
            policy : Policy,
            builds : MCBuilds,
            app : {SameApp} ] : <<c.proposed, TRUE>> \in c.builds["client"] }
    \cup [ proposed : {"NN", "XX"}, fallback : {{"NK"}},
           supported : {<<"NK">>, <<"NN", "XX">>}, policy : Policy,
           builds : {[s \in Side |-> AllKeys]}, app : {OtherApp} ]
=============================================================================
