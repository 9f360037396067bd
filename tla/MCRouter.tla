------------------------------ MODULE MCRouter ------------------------------
(* Instances of Router: a keyboard and a pad (inputs), a synth and an      *)
(* expander (outputs), and the sketch's application port (one of each).    *)
EXTENDS Router

CONSTANTS keys, pad, synth, expander, appIn, appOut, group

TwoToOne == <<[source |-> keys, dest |-> synth], [source |-> pad, dest |-> synth]>>
FanOut == <<[source |-> keys, dest |-> All], [source |-> pad, dest |-> synth]>>
GroupToAll == <<[source |-> group, dest |-> All], [source |-> pad, dest |-> synth]>>

(* Every port is an endpoint of its own, but for the application's two.    *)
OneEach ==
    [p \in Ports |-> IF p \in {appIn, appOut} THEN "app" ELSE p]
EndpointsOf == {OneEach[p] : p \in Ports}

OnlyTransparent == {Transparent}
SomeRules ==
    {Transparent,
     [rejects |-> {"chunk"}, drops |-> {}],
     [rejects |-> {}, drops |-> {"short"}]}
=============================================================================
