---------------------------- MODULE BenchReference ----------------------------
(***************************************************************************)
(* The engine without its timing: what bias table, cache, memory, counters *)
(* and answers are before each instruction of a testbench, if a request    *)
(* takes effect as a whole where the text fires it.  The checks of a       *)
(* testbench are rules about this reference; that the engine, with its     *)
(* flushes, handshakes and latencies, follows it is shown by               *)
(* ReferenceProofs, and that every loop ends before its guard by           *)
(* WaitProofs.                                                             *)
(***************************************************************************)
EXTENDS BenchDiscipline

\* The state s of the reference.  is_data, rdata and wait are those of the last
\* request with a tag.  drained are the tags whose answers the last drain loop has
\* noted, and first the tag it noted first, where the text tells.  Since the last
\* edge the engine may be known to be in a handshake, to have been handed its first
\* request, or its second one right after it, or to be silent; last is the tag of
\* the request fired last.
NoTag == -1
at_reset == [
    bias |-> bias_reset,
    cache_bypass_en |-> FALSE,
    cache_valid |-> [i \in Line |-> FALSE],
    cache_dirty |-> [i \in Line |-> FALSE],
    cache_tag |-> [i \in Line |-> ZeroCacheTag],
    cache_data |-> [i \in Line |-> ZeroData],
    mem |-> [a \in Addr |-> ZeroData],
    is_data |-> [t \in Tag |-> FALSE],
    rdata |-> [t \in Tag |-> ZeroData],
    wait |-> [t \in Tag |-> 0],
    dbg_cache_hits |-> 0,
    dbg_cache_misses |-> 0,
    saved |-> [dbg_cache_hits |-> 0, dbg_cache_misses |-> 0],
    drained |-> {},
    first |-> NoTag,
    last |-> NoTag,
    in_handshake |-> FALSE,
    since |-> "other"]

counters == {"dbg_cache_hits", "dbg_cache_misses"}
References == [
    bias : [Addr -> BOOLEAN],
    cache_bypass_en : BOOLEAN,
    cache_valid : [Line -> BOOLEAN],
    cache_dirty : [Line -> BOOLEAN],
    cache_tag : [Line -> CacheTag],
    cache_data : [Line -> Data],
    mem : [Addr -> Data],
    is_data : [Tag -> BOOLEAN],
    rdata : [Tag -> Data],
    wait : [Tag -> 0 .. ReadExtraLatency],
    dbg_cache_hits : Counter,
    dbg_cache_misses : Counter,
    saved : [counters -> Counter],
    drained : SUBSET Tag,
    first : Tag \cup {NoTag},
    last : Tag \cup {NoTag},
    in_handshake : BOOLEAN,
    since : {"first", "second", "silent", "other"}]

-----------------------------------------------------------------------------
\* A request r as a whole

\* f with another value at an entry.
put(f, entry, value) == [x \in DOMAIN f |-> IF x = entry THEN value ELSE f[x]]

\* It finds its line in the cache; it finds a dirty line that has to go first; it
\* leaves its line in the cache.
finds(s, r) == s.cache_valid[r.addr[2]] /\ s.cache_tag[r.addr[2]] = r.addr[1]
hits(s, r) == finds(s, r) /\ ~s.cache_bypass_en
victim(s, r) ==
    /\ ~s.cache_bypass_en
    /\ s.cache_valid[r.addr[2]] /\ s.cache_dirty[r.addr[2]]
    /\ ~finds(s, r)
allocates(s, r) == ~s.cache_bypass_en /\ (r.is_write \/ ~finds(s, r))

\* The dirty bits and the memory when the victim has been written back.
flushed_dirty(s, r) ==
    IF victim(s, r) THEN put(s.cache_dirty, r.addr[2], FALSE) ELSE s.cache_dirty
flushed_mem(s, r) ==
    IF victim(s, r)
    THEN put(s.mem, <<s.cache_tag[r.addr[2]], r.addr[2]>>, s.cache_data[r.addr[2]])
    ELSE s.mem

read(s, r) == IF hits(s, r) THEN s.cache_data[r.addr[2]] ELSE flushed_mem(s, r)[r.addr]

-----------------------------------------------------------------------------
\* The reference along a text p

\* The request on the port before instruction n.
port(p, n) == CHOOSE r \in shown(p, n) : TRUE

\* A wait for m2s_ready that takes no edge: nothing stands in the way of the request
\* that was just presented.
immediate(p, n, s) ==
    /\ n > 1 /\ p[n].op = "until_ready" /\ p[n - 1].op = "present" /\ shown(p, n - 1) = {}
    /\ \A r \in shown(p, n) : ~s.bias[r.addr] /\ ~victim(s, r) /\ r.tag \notin owed(p, n)

since_edge(p, n, s) ==
    IF accepts(p, n)
    THEN IF owed(p, n) = {} THEN "first"
         ELSE IF s.since = "first" /\ \A t \in owed(p, n) : s.wait[t] > 1 THEN "second"
         ELSE "other"
    ELSE IF p[n].op \notin edges \/ immediate(p, n, s) THEN s.since
    ELSE IF p[n].op = "tick" /\ s.since = "first" /\ \A t \in owed(p, n) : s.wait[t] > 0
    THEN "silent"
    ELSE "other"

\* The cache, the memory and the bias table after instruction n, which may fire the
\* request r on the port; and all the rest.
Step(p, n, s) ==
    LET i == p[n]
        fires == accepts(p, n)
        r == port(p, n)
        fills == fires /\ allocates(s, r)
    IN [bias |-> IF fires THEN put(s.bias, r.addr, FALSE)
                 ELSE IF i.op = "bias_write" THEN put(s.bias, i.addr, i.host_biased) ELSE s.bias,
        cache_bypass_en |-> IF i.op = "bypass" THEN i.bit ELSE s.cache_bypass_en,
        cache_valid |-> IF fills THEN put(s.cache_valid, r.addr[2], TRUE) ELSE s.cache_valid,
        cache_dirty |-> IF fills THEN put(flushed_dirty(s, r), r.addr[2], r.is_write)
                        ELSE IF fires THEN flushed_dirty(s, r) ELSE s.cache_dirty,
        cache_tag |-> IF fills THEN put(s.cache_tag, r.addr[2], r.addr[1]) ELSE s.cache_tag,
        cache_data |-> IF fills
                       THEN put(s.cache_data, r.addr[2], IF r.is_write THEN r.wdata ELSE read(s, r))
                       ELSE s.cache_data,
        mem |-> IF fires /\ s.cache_bypass_en /\ r.is_write THEN put(s.mem, r.addr, r.wdata)
                ELSE IF fires THEN flushed_mem(s, r) ELSE s.mem,
        is_data |-> IF fires THEN put(s.is_data, r.tag, ~r.is_write) ELSE s.is_data,
        rdata |-> IF fires THEN put(s.rdata, r.tag, read(s, r)) ELSE s.rdata,
        wait |-> IF fires
                 THEN put(s.wait, r.tag,
                          IF r.is_write \/ hits(s, r) THEN 0 ELSE ReadExtraLatency)
                 ELSE s.wait,
        dbg_cache_hits |-> counted(s.dbg_cache_hits, fires /\ hits(s, r)),
        dbg_cache_misses |-> counted(s.dbg_cache_misses, fires /\ ~hits(s, r)),
        saved |-> IF i.op = "save" THEN put(s.saved, i.reg, s[i.reg]) ELSE s.saved,
        drained |-> IF i.op = "s2m_ready" THEN {}
                    ELSE IF i.op = "drain" THEN owed(p, n)
                    ELSE IF fires THEN s.drained \ {r.tag} ELSE s.drained,
        first |-> IF i.op = "s2m_ready" THEN NoTag
                  ELSE IF i.op = "drain"
                  THEN IF s.since = "second" /\ s.wait[s.last] = 0 THEN s.last ELSE NoTag
                  ELSE s.first,
        last |-> IF fires THEN r.tag ELSE s.last,
        in_handshake |-> i.op = "until_bi_req" \/ (s.in_handshake /\ i.op \notin edges),
        since |-> since_edge(p, n, s)]

\* The reference before each instruction of testbench t, and at its end.
reference ==
    [t \in DOMAIN tests |->
        FoldLeft(LAMBDA r, n : Append(r, Step(tests[t], n, r[n])),
                 <<at_reset>>, [n \in 1 .. Len(tests[t]) |-> n])]

-----------------------------------------------------------------------------
\* What the texts promise about it

\* The port is driven anew, and the bypass switched, where no request is half done.
settled(p, n, s) == shown(p, n) = {} \/ s.in_handshake \/ (n > 1 /\ accepts(p, n - 1))
DrivesSettled(p, n, s) == p[n].op \in {"present", "bypass"} => settled(p, n, s)

\* A check expects what the reference says.
answer_shows(s, t, field, value) ==
    \/ field = "s2m_tag" /\ value = t
    \/ field \in {"is_data", "s2m_is_data"} /\ value = s.is_data[t]
    \/ field \in {"rdata", "s2m_rdata"} /\ s.is_data[t] /\ value = s.rdata[t]

ExpectsReference(p, n, s) ==
    LET i == p[n] IN
    /\ i.op = "expect" =>
          CASE i.reg = "m2s_ready" ->
                  /\ i.value = FALSE
                  /\ s.in_handshake \/ shown_tags(p, n) \cap owed(p, n) # {}
            [] i.reg = "s2m_valid" -> i.value = FALSE /\ s.since # "other"
            [] OTHER ->
                  /\ i.reg \in {"s2m_tag", "s2m_is_data", "s2m_rdata"} /\ waited(p, n)
                  /\ \A t \in owed(p, n) : answer_shows(s, t, i.reg, i.value)
    /\ i.op = "bias_is" => shown(p, n) = {} /\ i.addr \in Addr /\ i.value = s.bias[i.addr]
    /\ i.op = "save" => i.reg \in counters
    /\ i.op = "delta" =>
          i.reg \in counters /\ s[i.reg] = (s.saved[i.reg] + i.by) % CounterModulus
    /\ i.op = "answer_is" =>
          /\ i.field \in {"is_data", "rdata"} /\ i.tag \in s.drained
          /\ answer_shows(s, i.tag, i.field, i.value)
    /\ i.op = "before" =>
          i.first = s.first /\ {i.first, i.second} \subseteq s.drained /\ i.first # i.second

\* A loop waits for something that comes, and its guard leaves time for it.  Only
\* phase 4 has a host that answers a Back-Invalidate.
leaves(limit, cycles) == limit = Unguarded \/ (limit \in Nat /\ limit >= cycles)
WaitsLongEnough(t, p, n, s) ==
    LET i == p[n]
        ready_after == IF t = "phase4" THEN {d + 6 : d \in RspDelays} \cup {2} ELSE {2}
    IN
    /\ t # "phase4" => \A r \in shown(p, n + 1) : ~s.bias[r.addr]
    /\ i.op \in ready_loops =>
          /\ shown_tags(p, n) \cap owed(p, n) = {}
          /\ \A cycles \in ready_after : leaves(i.limit, cycles)
    /\ i.op = "until_ready_watching_bi" =>
          /\ n > 1 /\ p[n - 1].op = "present" /\ shown(p, n - 1) = {} /\ owed(p, n) = {}
          /\ \A r \in shown(p, n) : r.addr = i.addr /\ s.bias[r.addr]
    /\ i.op = "until_bi_req" => leaves(i.limit, 1)
    /\ i.op \in answer_loops =>
          /\ owed(p, n) # {} /\ leaves(i.limit, ReadExtraLatency + 1)
          /\ i.op = "until_valid_tag" => owed(p, n) = {i.tag}
    /\ i.op = "drain" => leaves(i.limit, ReadExtraLatency + 2 * i.n)

\* The engine's geometry, latency and the delays of the host are such that every
\* text keeps these promises.
ASSUME ReferenceAssumption ==
    \A t \in DOMAIN tests :
        /\ reference[t][1] = at_reset
        /\ \A n \in 1 .. Len(tests[t]) :
              LET p == tests[t]
                  s == reference[t][n]
              IN  /\ s \in References
                  /\ reference[t][n + 1] = Step(p, n, s)
                  /\ DrivesSettled(p, n, s)
                  /\ ExpectsReference(p, n, s)
                  /\ WaitsLongEnough(t, p, n, s)

-----------------------------------------------------------------------------
\* The engine beside the reference

ref == reference[test][pc]

\* Cache and bypass, the counters and what was saved of them, and the answers owed are
\* those of the reference.
CacheIs(s) ==
    /\ cache_bypass_en = s.cache_bypass_en
    /\ cache_valid = s.cache_valid
    /\ cache_tag = s.cache_tag
    /\ cache_data = s.cache_data
CountersAre(s) ==
    /\ dbg_cache_hits = s.dbg_cache_hits
    /\ dbg_cache_misses = s.dbg_cache_misses
    /\ saved = s.saved
AnswersAre(s) ==
    \A t \in occupied :
        /\ slot_is_write[t] <=> ~s.is_data[t]
        /\ s.is_data[t] => slot_rdata[t] = s.rdata[t]

\* Bias table, dirty bits and memory are, or the request on the port is half done: its
\* Back-Invalidate, and perhaps the flush after it, are already over.
untouched(s) ==
    /\ bias = s.bias /\ cache_dirty = s.cache_dirty /\ mem = s.mem
    /\ flush_state = "FLUSH_IDLE"
half_done(s) ==
    /\ m2s.valid /\ bi_state = "BI_IDLE"
    /\ bias = put(s.bias, m2s.addr, FALSE)
    /\ \/ /\ cache_dirty = s.cache_dirty /\ mem = s.mem
          /\ flush_state = "FLUSH_IDLE" \/ victim(s, m2s)
       \/ /\ cache_dirty = flushed_dirty(s, m2s) /\ mem = flushed_mem(s, m2s)
          /\ flush_state = "FLUSH_IDLE"

\* The engine is where the reference is, at every point of every testbench.
EngineFollowsReference ==
    running =>
        /\ CacheIs(ref) /\ CountersAre(ref) /\ AnswersAre(ref)
        /\ untouched(ref) \/ half_done(ref)
        /\ settled(text, pc, ref) /\ ~loops => untouched(ref)

HandshakeFollows ==
    running /\ ref.in_handshake /\ ~loops => bi_req_valid

\* Right after the first request was fired, and the second right after it, the slots
\* count down from the waits of the reference and no answer is on offer.
in_step == ~loops \/ immediate(text, pc, ref)
InOrder(s) ==
    /\ s.since # "other" => ~resp_active
    /\ s.since \in {"first", "second"} => s.last \in occupied
    /\ s.since = "first" => \A t \in occupied : slot_cnt[t] = s.wait[t]
    /\ s.since = "second" =>
          \A t \in occupied : IF t = s.last THEN slot_cnt[t] = s.wait[t] ELSE slot_cnt[t] > 0
OrderFollows == running /\ in_step => InOrder(ref)

\* A loop whose request nothing stands in the way of takes no edge.
ImmediateFollows == running /\ immediate(text, pc, ref) => accept_this_cycle

\* A drain loop notes the answer that the reference has first; and what has been
\* noted, once each, is what the reference has.
FirstIs(s) ==
    /\ does("drain") /\ s.since = "second" /\ s.wait[s.last] = 0 =>
          IF answers # <<>> THEN answers[1].tag = s.last
          ELSE /\ s.last \in occupied
               /\ IF resp_active THEN resp_tag_r = s.last
                  ELSE \A t \in occupied : slot_cnt[t] = 0 <=> t = s.last
    /\ s.first # NoTag => answers # <<>> /\ answers[1].tag = s.first
NotedAre(s) ==
    /\ \A i, j \in DOMAIN answers : answers[i].tag = answers[j].tag => i = j
    /\ s.drained \subseteq {answers[i].tag : i \in DOMAIN answers}
    /\ \A i \in DOMAIN answers : LET a == answers[i] IN
          does("drain") \/ a.tag \in s.drained =>
              /\ a.is_data <=> s.is_data[a.tag]
              /\ a.is_data => a.rdata = s.rdata[a.tag]
FirstFollows == running => FirstIs(ref)
NotedFollow == running => NotedAre(ref)

\* Only the host of phase 4 takes part in a handshake, from the request to the
\* answer, with one of its delays before it.
HostFollows ==
    /\ host \in [state : {"idle", "waiting_to_respond", "offering_rsp"}, delay_left : Nat]
    /\ \E delay \in RspDelays : host.delay_left <= delay
    /\ host.state # "idle" <=> bi_state = "BI_WAIT_RSP"
    /\ test # "phase4" => bi_state = "BI_IDLE"
    /\ running /\ test # "phase4" /\ m2s.valid => ~bias[m2s.addr]

\* The edges a loop still takes, where the host answers after d cycles, are left
\* before its guard.
cycles_to_ready(d) ==
    CASE bi_state = "BI_REQ" -> d + 5
      [] bi_state = "BI_WAIT_RSP" /\ host.state = "waiting_to_respond" -> host.delay_left + 4
      [] bi_state = "BI_WAIT_RSP" /\ host.state # "waiting_to_respond" -> 3
      [] bi_state = "BI_IDLE" /\ bias[m2s.addr] -> d + 6
      [] bi_state = "BI_IDLE" /\ ~bias[m2s.addr] /\ flush_state = "FLUSH_ACTIVE" -> 1
      [] OTHER -> IF need_evict_writeback THEN 2 ELSE 0
ReadyLoopsEnd ==
    running /\ instr.op \in ready_loops =>
        \A d \in RspDelays : leaves(instr.limit, guard + cycles_to_ready(d))
BiLoopsEnd == does("until_bi_req") /\ ~bi_req_valid => guard = 0
AnswerLoopsEnd ==
    /\ running /\ instr.op \in answer_loops /\ ~resp_active =>
          \A t \in occupied : guard + slot_cnt[t] <= ReadExtraLatency
    /\ does("drain") =>
          /\ \A t \in occupied : slot_cnt[t] > 0 => guard + slot_cnt[t] <= ReadExtraLatency
          /\ guard <= ReadExtraLatency + 2 * Len(answers) + IF resp_active THEN 1 ELSE 0

\* The Back-Invalidate that phase 4 watches for is on its way, or was seen.
WatchFollows ==
    does("until_ready_watching_bi") =>
        /\ m2s.addr = instr.addr
        /\ saw_bi \/ bi_req_valid \/ (bi_state = "BI_IDLE" /\ bias[m2s.addr])

=============================================================================
