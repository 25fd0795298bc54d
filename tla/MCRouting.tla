----------------------------- MODULE MCRouting -----------------------------
(* Instances of Routing, and of the Topology in it, for TLC. *)
EXTENDS Routing

CONSTANT nil

-----------------------------------------------------------------------------
(* Bindings *)

BareBindings ==
    <<[pattern |-> <<Hash(nil)>>, exchange |-> "ex"],
      [pattern |-> <<Lit(<<"a">>), Star(nil)>>, exchange |-> "alt"]>>

NamedBindings == <<[pattern |-> <<Lit(<<"a">>), Star("n")>>, exchange |-> "ex"]>>

-----------------------------------------------------------------------------
(* Every pattern of up to three tokens against every topic of up to three
   words, with the topics that have empty words, dots, or nothing in them. *)

Tokens == {Lit(<<"a">>), Star(nil), Star("n"), Hash(nil), Hash("n"), Hash("m")}

Patterns == UNION {[1 .. l -> Tokens] : l \in 0 .. 3}

Words == {<<"a">>, <<"b">>}

Texts ==
    {<<>>, <<"/">>, <<"a", "/", "/", "b">>, <<"a", ".", "b">>} \cup Words
      \cup {v \o <<"/">> \o w : v, w \in Words}
      \cup {u \o <<"/">> \o v \o <<"/">> \o w : u, v, w \in Words}

Sender(x, ms, cs) ==
    [exchange |-> "ex", xform |-> x, mappings |-> ms, persistent |-> TRUE, carries |-> cs]

Receiver(x, ss) == [xform |-> x, subs |-> ss]

Sub(p, f) == [pattern |-> p, topicField |-> f]

Matching ==
    [senders |-> {Sender("slashToDot", <<>>, <<>>)},
     receivers |-> {Receiver("dotToSlash", <<Sub(p, nil)>>) : p \in Patterns},
     topics |-> Texts, fields |-> {<<>>}, declares |-> {"durable"},
     limits |-> {0}, faults |-> {0}]

-----------------------------------------------------------------------------
(* Every transform with and without mappings, subscriptions and functions, and
   fields whose names collide with captures. *)

Mapping(ts, ex, kf, e, per) ==
    [topics |-> ts, extracted |-> ex, keyField |-> kf, exchange |-> e,
     persistent |-> per, empty |-> FALSE]

AB == <<"a", "/", "b">>

MappingLists ==
    {<<>>,
     <<Mapping({AB}, "n" :> <<"b">>, "n", nil, nil), Mapping({AB}, <<>>, nil, "alt", FALSE)>>,
     <<Mapping({AB}, <<>>, "n", "alt", FALSE)>>,
     <<Mapping({AB}, <<>>, nil, "alt", FALSE)>>,
     <<[Mapping({AB}, <<>>, nil, nil, nil) EXCEPT !.empty = TRUE]>>}

SubLists ==
    {<<>>,
     <<Sub(<<Lit(<<"a">>), Star("n")>>, nil), Sub(<<Hash("m")>>, "m")>>,
     <<Sub(<<Lit(<<"a">>), Hash("n")>>, "n")>>,
     <<Sub(<<Star(nil)>>, "h")>>}

Transforming ==
    [senders |-> {Sender(x, ms, <<>>) : x \in {"slashToDot", "verbatim", "error", "ignore"},
                                        ms \in MappingLists},
     receivers |-> {Receiver(x, ss) : x \in {"dotToSlash", "verbatim", "error", "ignore"},
                                      ss \in SubLists},
     topics |-> {AB, <<"a">>, <<"a", ".", "b">>},
     fields |-> {<<>>, "n" :> <<"c">>, "h" :> <<"c">>},
     declares |-> {"durable"},
     limits |-> {0}, faults |-> {0}]

-----------------------------------------------------------------------------
(* Every trace context a producer can have, against fields with the names of its
   headers, well formed and not, and a subscription that captures one of them. *)

Traces == {<<"t">>, <<"c">>}

Carried == UNION {[ns -> {<<"t">>}] : ns \in SUBSET TraceNames}

Business == UNION {[ns -> {<<"c">>, <<"x">>}] : ns \in SUBSET TraceNames}

Tracing ==
    [senders |-> {Sender("slashToDot", <<>>, cs) : cs \in {c \in Carried : Carriable(c)}},
     receivers |-> {Receiver("dotToSlash", ss) :
                      ss \in {<<>>, <<Sub(<<Hash(nil), Star("baggage")>>, nil)>>}},
     topics |-> {AB}, fields |-> Business, declares |-> {"durable"},
     limits |-> {0}, faults |-> {0}]

-----------------------------------------------------------------------------
(* Every way to declare the queue, with enough faults for the backoff to reach
   its cap when there is no limit to the attempts, and for the limit. *)

Failing(n) ==
    [senders |-> {Sender("slashToDot", <<>>, <<>>)},
     receivers |-> {Receiver("dotToSlash", <<>>)},
     topics |-> {AB}, fields |-> {<<>>}, declares |-> AllDeclares,
     limits |-> {0, 2}, faults |-> {n}]

AllScenarios == {Matching, Transforming, Tracing, Failing(MaxAttempt)}

FailingOnly == {Failing(2)}

=============================================================================
