--------------------------- MODULE BenchDiscipline ---------------------------
(***************************************************************************)
(* What the text of a testbench promises: that it looks at every answer.   *)
(* With s2m_ready high the engine hands an answer over at the first edge   *)
(* at which it is on offer, so a testbench that fires a request with       *)
(* s2m_ready high must know that no answer can be there (bugs.md, BUG-005; *)
(* sim/phase2/tb_protocol_engine.cpp, lines 62-71).  These are predicates  *)
(* of the instruction sequence p before its instruction n.                 *)
(***************************************************************************)
EXTENDS EngineBench

ready_loops == {"until_ready", "until_ready_watching_bi"}
answer_loops == {"until_valid", "until_valid_tag"}
edges == ready_loops \cup answer_loops
         \cup {"tick", "accept", "take", "bias_write", "until_bi_req", "drain"}

\* The instruction at n ends a request: with the edge that follows the wait for
\* m2s_ready.  And it ends answers.
accepts(p, n) == n > 1 /\ p[n - 1].op \in ready_loops /\ p[n].op \in {"accept", "tick"}
takes(i) == i.op \in {"take", "drain"}

\* The request on the port, if there is one, and the tags of the requests that
\* were accepted and whose answers have not been taken.
shown(p, n) ==
    {p[j].m2s : j \in {k \in 1 .. n - 1 :
        p[k].op = "present" /\ \A l \in k + 1 .. n - 1 : p[l].op \notin {"present", "accept"}}}
shown_tags(p, n) == {r.tag : r \in shown(p, n)}
owed(p, n) ==
    UNION {shown_tags(p, f) : f \in {k \in 1 .. n - 1 :
        accepts(p, k) /\ \A l \in k + 1 .. n - 1 : ~takes(p[l])}}

\* s2m_ready is high.
takes_answers(p, n) ==
    \E j \in 1 .. n - 1 : /\ p[j].op = "s2m_ready" /\ p[j].bit
                          /\ \A k \in j + 1 .. n - 1 : p[k].op # "s2m_ready"

\* No edge since it has seen an answer; or since it fired with nothing owed.
no_edge(p, j, n) == \A k \in j + 1 .. n - 1 : p[k].op \notin edges
waited(p, n) == \E j \in 1 .. n - 1 : p[j].op \in answer_loops /\ no_edge(p, j, n)
just_fired(p, n) ==
    \E f \in 1 .. n - 1 : accepts(p, f) /\ owed(p, f) = {} /\ no_edge(p, f, n)

\* What an attentive text does at instruction n.  Requests are fired one by one,
\* each after the wait for m2s_ready.
FiresInTurn(p, n) ==
    /\ p[n].op = "accept" => accepts(p, n)
    /\ p[n].op \in ready_loops => shown(p, n) # {}
    /\ p[n].op = "tick" => accepts(p, n) \/ shown(p, n) = {}
    /\ p[n].op \in answer_loops \cup {"take"} => shown_tags(p, n) \subseteq owed(p, n)
    /\ p[n].op \in {"drain", "bias_write"} => shown(p, n) = {}

\* It waits for a Back-Invalidate of the line that it has just made Host-Biased.
ProvokesBi(p, n) ==
    p[n].op = "until_bi_req" =>
        /\ n > 2 /\ p[n - 1].op = "present" /\ p[n - 2].op = "bias_write"
        /\ p[n - 2].host_biased /\ p[n - 2].addr = p[n - 1].m2s.addr

\* It takes an answer that it has seen, the only one there can be; and drains as
\* many as there are.
TakesWhatItSaw(p, n) ==
    /\ p[n].op = "take" =>
          waited(p, n) /\ takes_answers(p, n) /\ \A t, u \in owed(p, n) : t = u
    /\ p[n].op = "drain" =>
          /\ n > 1 /\ p[n - 1].op = "s2m_ready" /\ p[n - 1].bit
          /\ p[n].n = Cardinality(owed(p, n))

\* With s2m_ready high it does nothing else while an answer may be on offer.
LooksAtAnswers(p, n) ==
    takes_answers(p, n) =>
        /\ p[n].op \in ready_loops \cup {"accept", "bias_write", "until_bi_req"} => owed(p, n) = {}
        /\ p[n].op = "tick" => owed(p, n) = {} \/ just_fired(p, n)
        /\ p[n].op = "until_valid_tag" => owed(p, n) \subseteq {p[n].tag}

Attentive(p) ==
    \A n \in 1 .. Len(p) :
        FiresInTurn(p, n) /\ ProvokesBi(p, n) /\ TakesWhatItSaw(p, n) /\ LooksAtAnswers(p, n)

\* Every testbench of the repository is attentive.  (The texts do not depend on
\* the constants.)
ASSUME AttentiveAssumption == \A t \in DOMAIN tests : Attentive(tests[t])

-----------------------------------------------------------------------------
\* The engine beside the text

text == tests[test]

\* The requests in the engine are those that the text has fired and whose
\* answers it has not taken; a drain loop has noted the others.
noted_tags == IF does("drain") THEN {answers[i].tag : i \in DOMAIN answers} ELSE {}
occupied == {t \in Tag : slot_valid[t]}
SlotsFollowText ==
    running =>
        /\ owed(text, pc) = occupied \cup noted_tags
        /\ occupied \cap noted_tags = {}
        /\ does("drain") => Cardinality(noted_tags) = Len(answers)

\* The pins are as the text has driven them.
PinsFollowText ==
    running =>
        /\ shown(text, pc) = IF m2s.valid THEN {m2s} ELSE {}
        /\ s2m_ready <=> takes_answers(text, pc)

\* A request the text goes on to fire is accepted; an answer it has seen is there,
\* and none is right after it fired with none owed.
PortsFollowText ==
    running =>
        /\ accepts(text, pc) => accept_this_cycle
        /\ waited(text, pc) /\ ~loops => resp_active
        /\ just_fired(text, pc) /\ ~loops => ~resp_active

\* The Back-Invalidate that the text waits for is on its way.
BiFollowsText ==
    /\ ~m2s.valid => bi_state = "BI_IDLE"
    /\ does("present") /\ pc > 1 /\ text[pc - 1].op = "bias_write" /\ text[pc - 1].host_biased =>
          bias[text[pc - 1].addr]
    /\ does("until_bi_req") => bi_req_valid \/ (bi_state = "BI_IDLE" /\ bias[m2s.addr])

=============================================================================
