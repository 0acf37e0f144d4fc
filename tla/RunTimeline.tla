------------------------------ MODULE RunTimeline ------------------------------
\* The timeline of a run: the agent's output stream is parsed line by line by the
\* worker, every event is inserted without waiting for the one before it, the
\* backend inserts the progress the agent reports on the side, other services add
\* their own rows, and the run card presents the rows in the order of their ids.
\* A payload is a function from field names to texts; a text is a model string.
EXTENDS Naturals, Sequences, SequencesExt, FiniteSets

CONSTANTS Streams,          \* sets of [lines, others]: the lines the agent may print,
                            \* each at most once, and the rows other services may write
          HistoryRuns,      \* runs of one ticket: [id, source, failing, deciding]
          MaxLines, MaxOthers,
          MaxProgress,      \* progress rows kept of the agent's own text
          MaxPending        \* tool calls remembered until their result

VARIABLES stream,           \* the run's own element of Streams
          printed,          \* lines the agent has printed
          unread,           \* ... and the worker has not read
          parser,           \* [pending, progressCount, soon] of the stream parser; soon:
                            \* the interval since the last progress row has not passed
          inserts,          \* inserts under way
          rows,             \* run_events, in the order of their ids
          reported,         \* reports delivered to the backend
          others,           \* how many rows other services wrote
          history           \* the ticket's runs, in order of creation
tvars == <<stream, printed, unread, parser, inserts, rows, reported, others, history>>

None == "none"
Event(type, payload) == [type |-> type, payload |-> payload]
Has(p, f)  == f \in DOMAIN p
\* asString: a missing, empty or non-string field is no text.
Text(p, f) == IF Has(p, f) /\ p[f] # "" THEN <<p[f]>> ELSE <<>>
Pick(fields, p) ==                    \* the first of these fields that has a text
  LET have == SelectSeq(fields, LAMBDA f : Text(p, f) # <<>>)
  IN  IF have = <<>> THEN None ELSE have[1]

-----------------------------------------------------------------------------
\* stream-parser.ts, tool-input-sanitizer.ts

HumanText   == {"message", "title", "details", "summary"}
FileContent == {"content", "new_string", "old_string"}
\* File bodies are replaced, long fields that are not prose are cut.
sanitizeToolInput(input) ==
  [fields |-> [f \in DOMAIN input |->
     CASE f \in FileContent -> "<file content>"
       [] f \in HumanText   -> input[f]
       [] input[f] = "long" -> "cut"
       [] OTHER             -> input[f]],
   truncated |-> \E f \in DOMAIN input \ (FileContent \cup HumanText) : input[f] = "long"]

Remembered(p, id) == SelectSeq(p.pending, LAMBDA x : x.id = id)
Forget(p, id)     == SelectSeq(p.pending, LAMBDA x : x.id # id)

rememberToolUse(p, b) ==
  LET kept == IF Len(p.pending) >= MaxPending THEN Tail(p.pending) ELSE p.pending
  IN  [p EXCEPT !.pending = Append(kept, [id |-> b.id, name |-> b.name, command |-> Text(b.input, "command")])]

sampleProgress(p, text) ==
  IF p.progressCount >= MaxProgress \/ p.soon THEN [parser |-> p, out |-> <<>>]
  ELSE [parser |-> [p EXCEPT !.progressCount = @ + 1, !.soon = TRUE],
        out    |-> <<Event("progress", [message |-> text])>>]

mapBlock(p, b) ==
  IF b.type = "text" THEN sampleProgress(p, b.text)
  ELSE LET s == sanitizeToolInput(b.input)
       IN  [parser |-> rememberToolUse(p, b),
            out    |-> <<Event("tool_call", [name |-> b.name, input |-> [form |-> "object", fields |-> s.fields],
                                             truncated |-> s.truncated])>>]
mapAssistant(p, blocks) ==
  FoldLeft(LAMBDA acc, b : LET m == mapBlock(acc.parser, b)
                           IN  [parser |-> m.parser, out |-> acc.out \o m.out],
           [parser |-> p, out |-> <<>>], blocks)

pendingOf(p, id) == Remembered(p, id)
mapUser(p, l) ==
  LET found == pendingOf(p, l.id)
      call  == IF found = <<>> THEN [name |-> "Bash", command |-> <<>>] ELSE found[1]
      shown == [name |-> call.name, reason |-> "denied", for |-> l.id]
  IN  [parser |-> [p EXCEPT !.pending = Forget(p, l.id)],
       out    |-> IF ~l.denied THEN <<>>
                  ELSE <<Event("tool_denied", IF call.command = <<>> THEN shown
                                              ELSE shown @@ [command |-> call.command[1]])>>]

mapInit(l)     == <<Event("log", [model |-> l.model])>>
mapApiRetry(l) == IF l.error = "rate_limit" THEN <<Event("api_retry", [error |-> l.error])>> ELSE <<>>

\* A line that is not JSON, or of another type, gives nothing.
parseLine(p, l) ==
  CASE l.type = "init"      -> [parser |-> p, out |-> mapInit(l)]
    [] l.type = "api_retry" -> [parser |-> p, out |-> mapApiRetry(l)]
    [] l.type = "assistant" -> mapAssistant(p, l.blocks)
    [] l.type = "user"      -> mapUser(p, l)
    [] OTHER                -> [parser |-> p, out |-> <<>>]

-----------------------------------------------------------------------------
\* RunTimeline/presenter.ts: what a card shows is its title, the texts of its
\* body, its list of <<key, text>>, and its tags.
Card(title, body, kv, tags) == [title |-> title, body |-> body, kv |-> kv, tags |-> tags]

Pairs(p, keys) == {<<k, p[k]>> : k \in keys \cap DOMAIN p}
\* asRecord: a record inside the payload, or an empty one.
Inner(p, f) == IF Has(p, f) THEN p[f] ELSE [x \in {} |-> None]

BrigadirTools == {"report_progress", "request_human", "complete_task"}
BodyKeys == <<"command", "message", "details", "summary", "file_path", "query", "description", "content">>

\* An object, or a string that parses to one, has fields; another string is raw.
parseToolInput(p) ==
  IF ~Has(p, "input") THEN [kind |-> "none"]
  ELSE IF p.input.form \in {"object", "json"} THEN [kind |-> "fields", fields |-> p.input.fields]
  ELSE [kind |-> "raw", raw |-> p.input.raw, truncated |-> p.input.form = "cut"]

presentBrigadirCall(kind, f) ==
  CASE kind = "request_human" ->
         Card(IF Has(f, "title") THEN f.title ELSE kind, Text(f, "details"), {},
              {IF Has(f, "blocking") /\ f.blocking = "false" THEN "non-blocking" ELSE "blocking"})
    [] kind = "complete_task" -> Card("Complete", Text(f, "summary"), {}, {"checks"})
    [] OTHER -> Card(kind, Text(f, "message"), {}, {})

presentToolCall(p) ==
  LET name  == IF Has(p, "name") THEN p.name ELSE "tool_call"
      input == parseToolInput(p)
      f     == IF input.kind = "fields" THEN input.fields ELSE [x \in {} |-> None]
      key   == Pick(BodyKeys, f)
  IN  CASE input.kind = "raw"      -> Card(name, <<input.raw>>, {}, {})
        [] input.kind # "raw" /\ name \in BrigadirTools -> presentBrigadirCall(name, f)
        [] OTHER -> IF key # None THEN Card(name, <<f[key]>>, {}, {})
                                  ELSE Card(name, <<>>, Pairs(f, DOMAIN f), {})

presentToolDenied(p) ==
  LET key == Pick(<<"command", "reason">>, p)
  IN  Card(IF Has(p, "name") THEN p.name ELSE "tool_denied", IF key = None THEN <<>> ELSE <<p[key]>>, {}, {"denied"})
presentProgress(p)   == Card("Progress", Text(p, "message"), {}, {})
presentStartRef(p)   == Card("Start point", Text(p, "message"),
                             Pairs(p, {"continueBranch", "mergedBranches", "blockers", "startSha", "unmatched"}),
                             IF Has(p, "decision") THEN {p.decision} ELSE {})
presentEarlyRelease(p) == Card("Released early", Text(p, "message"),
                               Pairs(p, {"matched_status", "blockers"}), {"early release"})
presentLog(p) ==
  LET source == IF Has(p, "source") THEN p.source ELSE None
  IN  CASE source = "repo-scoping" /\ Text(p, "message") # <<>> ->
             Card("Repository scoping", Text(p, "message"), {}, {})
        [] source = "start-ref"          -> presentStartRef(p)
        [] source = "dependency-release" -> presentEarlyRelease(p)
        [] OTHER -> Card("Session started", Text(p, "model"), {}, {})
presentJiraAction(p)  == Card("Jira", Text(p, "commented") \o Text(p, "transitioned_to"), {}, {})
presentApiRetry(p)    == Card("API retry", Text(p, "error"), {}, {})
presentError(p)       == Card("Error", Text(p, Pick(<<"message", "error">>, p)) \o Text(p, "stack"), {}, {})
presentUndeliveredReport(p) ==
  LET report == Inner(p, "report")
  IN  Card("Undelivered report", Text(report, "outcome") \o Text(p, "run_status") \o Text(report, "summary"), {}, {})
presentChannelDown(p) == Card("Channel unavailable", Text(p, "probe_url"), {}, {})
presentChannelFailure(p) ==
  LET error == Inner(p, "error")
  IN  Card("Callback channel failure", <<>>,
           Pairs(p, {"occurred_at", "tool", "attempts", "status", "target"})
             \cup {<<"error", t>> : t \in ToSet(Text(error, "name") \o Text(error, "message"))},
           ToSet(Text(p, "kind")))
presentUnknown(p, type) == Card(type, SetToSeq({p[f] : f \in DOMAIN p}), {}, {})

presentEvent(e) ==
  CASE e.type = "tool_call"    -> presentToolCall(e.payload)
    [] e.type = "progress"     -> presentProgress(e.payload)
    [] e.type = "log"          -> presentLog(e.payload)
    [] e.type = "jira_action"  -> presentJiraAction(e.payload)
    [] e.type = "api_retry"    -> presentApiRetry(e.payload)
    [] e.type = "error"        -> presentError(e.payload)
    [] e.type = "undelivered_report" -> presentUndeliveredReport(e.payload)
    [] e.type = "channel_down" -> presentChannelDown(e.payload)
    [] e.type = "channel_failure" -> presentChannelFailure(e.payload)
    [] e.type = "tool_denied"  -> presentToolDenied(e.payload)
    [] OTHER                   -> presentUnknown(e.payload, e.type)

\* The report_progress call and the progress it produced, side by side.
CallMessage(e) ==
  LET input == parseToolInput(e.payload)
  IN  IF input.kind = "fields" THEN Text(input.fields, "message") ELSE <<>>
\* A mistake: any progress right after a report_progress call is taken for its own.
isReportProgressDuplicateAny(e, next) ==
  e.type = "tool_call" /\ next.type = "progress" /\ e.payload.name = "report_progress"
isReportProgressDuplicate(e, next) ==
  /\ e.type = "tool_call" /\ next.type = "progress"
  /\ e.payload.name = "report_progress"
  /\ CallMessage(e) # <<>> /\ CallMessage(e) = Text(next.payload, "message")

presentEvents(es) ==
  LET kept(i) == i = Len(es) \/ ~isReportProgressDuplicate(es[i], es[i + 1])
  IN  FoldLeft(LAMBDA acc, i : IF kept(i) THEN Append(acc, presentEvent(es[i])) ELSE acc,
               <<>>, [i \in 1 .. Len(es) |-> i])

\* TicketHistory/presenter.ts: the main pass, and one block per rework cycle.
Opens(r) == r.source \in {"triage", "answer-triage"} /\ r.failing # 0
CycleAt(blocks, r) ==
  {i \in DOMAIN blocks : blocks[i].kind = "cycle" /\ blocks[i].runs[1].id = r.deciding}
mainBlock(blocks, r) == Append(blocks, [kind |-> "run", runs |-> <<r>>])
presentRun(blocks, r) ==
  IF Opens(r) THEN Append(blocks, [kind |-> "cycle", runs |-> <<r>>])
  ELSE IF r.source = "rework" /\ CycleAt(blocks, r) # {}
  THEN LET i == CHOOSE i \in CycleAt(blocks, r) : TRUE
       IN  [blocks EXCEPT ![i].runs = Append(@, r)]
  ELSE mainBlock(blocks, r)
presentHistory(rs) == FoldLeft(presentRun, <<>>, rs)

-----------------------------------------------------------------------------
TimelineInit ==
  /\ stream \in Streams
  /\ printed = {} /\ unread = <<>> /\ parser = [pending |-> <<>>, progressCount |-> 0, soon |-> FALSE]
  /\ inserts = {} /\ rows = <<>> /\ reported = {} /\ others = 0 /\ history = <<>>

\* A result comes after its call.
Calls(l) == IF l.type = "assistant" THEN {b \in ToSet(l.blocks) : b.type = "tool_use"} ELSE {}
Called   == UNION {Calls(l) : l \in printed}

PrintLine(l) ==
  /\ l \in stream.lines \ printed /\ Cardinality(printed) < MaxLines
  /\ l.type = "user" => \E b \in Called : b.id = l.id
  /\ printed' = printed \cup {l} /\ unread' = Append(unread, l)
  /\ UNCHANGED <<stream, parser, inserts, rows, reported, others, history>>

\* rl.on('line'): the inserts are started in order and not awaited.
ReadLine ==
  /\ unread # <<>>
  /\ \E soon \in IF parser.progressCount = 0 THEN {FALSE} ELSE BOOLEAN :
     LET m == parseLine([parser EXCEPT !.soon = soon], Head(unread))
     IN  /\ parser' = [m.parser EXCEPT !.soon = FALSE]
         /\ inserts' = inserts \cup {[line |-> Head(unread), i |-> i, event |-> m.out[i]] : i \in DOMAIN m.out}
  /\ unread' = Tail(unread)
  /\ UNCHANGED <<stream, printed, rows, reported, others, history>>

\* Inserts of one worker run on several connections: any of them may land first.
Land(x) ==
  /\ inserts' = inserts \ {x} /\ rows' = Append(rows, x.event)
  /\ UNCHANGED <<stream, printed, unread, parser, reported, others, history>>

\* A failed insert is logged and dropped.
FailInsert(x) ==
  /\ inserts' = inserts \ {x}
  /\ UNCHANGED <<stream, printed, unread, parser, rows, reported, others, history>>

\* CallbackService.progress: the tool server posts while the worker reads.
Report(b) ==
  /\ b.name = "report_progress" /\ b \notin reported
  /\ reported' = reported \cup {b}
  /\ rows' = Append(rows, Event("progress", [message |-> b.input.message, via |-> "callback"]))
  /\ UNCHANGED <<stream, printed, unread, parser, inserts, others, history>>

OtherRow(e) ==
  /\ others < MaxOthers /\ others' = others + 1 /\ rows' = Append(rows, e)
  /\ UNCHANGED <<stream, printed, unread, parser, inserts, reported, history>>

\* The runs of one instant may be listed with the effect before its cause.
AddRun(r) ==
  /\ r \notin ToSet(history) /\ history' = Append(history, r)
  /\ UNCHANGED <<stream, printed, unread, parser, inserts, rows, reported, others>>

TimelineNext ==
  \/ \E l \in stream.lines : PrintLine(l)
  \/ ReadLine
  \/ \E x \in inserts : Land(x)
  \/ \E x \in inserts : FailInsert(x)
  \/ \E b \in Called : Report(b)
  \/ \E e \in stream.others : OtherRow(e)

HistoryNext == \E r \in HistoryRuns : AddRun(r)

-----------------------------------------------------------------------------
\* The texts of a row an operator is meant to read.
ReadableFields == {"message", "summary", "error", "command", "reason", "model", "details"}
TextsOf(e) ==
  CASE e.type = "tool_call" ->
         IF CallMessage(e) # <<>> THEN ToSet(CallMessage(e))
         ELSE LET input == parseToolInput(e.payload)
              IN  IF input.kind = "raw" THEN {input.raw}
                  ELSE IF input.kind = "fields" /\ e.payload.name \notin BrigadirTools
                  THEN ToSet(Text(input.fields, "command")) ELSE {}
    [] e.type = "tool_denied" -> ToSet(Text(e.payload, Pick(<<"command", "reason">>, e.payload)))
    [] e.type = "undelivered_report" -> ToSet(Text(e.payload.report, "summary"))
    [] e.type = "channel_failure"    -> ToSet(Text(e.payload.error, "message"))
    [] OTHER -> {e.payload[f] : f \in ReadableFields \cap DOMAIN e.payload}
KnownLogSources == {"repo-scoping", "start-ref", "dependency-release"}
\* A log row with a message of a source the presenter has no card for.
OtherLog(e) == e.type = "log" /\ Has(e.payload, "message") /\ e.payload.source \notin KnownLogSources

\* In whatever order the rows of the worker, the callbacks and the services land,
\* the cards show the text of every row, the summary inside an undelivered report and
\* the message inside a failure of the channel among them: only a report_progress call whose message
\* the very next card repeats is left out. (Log rows of other sources are shown as
\* "Session started", without their message.)
TimelineShowsTexts ==
  LET cards == presentEvents(rows)
      shown == UNION {ToSet(cards[i].body) \cup {x[2] : x \in cards[i].kv} : i \in DOMAIN cards}
  IN  \A i \in DOMAIN rows : ~OtherLog(rows[i]) => TextsOf(rows[i]) \subseteq shown

\* A denial names the command of the call that was denied, or none when that call
\* is no longer remembered; never another call's.
DenialNamesItsCall ==
  \A i \in DOMAIN rows : rows[i].type = "tool_denied" =>
    \E b \in Called : /\ b.id = rows[i].payload.for
                      /\ Has(rows[i].payload, "command") =>
                           /\ Text(b.input, "command") = <<rows[i].payload.command>>
                           /\ b.name = rows[i].payload.name

\* However much the agent writes, at most MaxProgress rows of its own text are kept
\* besides what it reports.
ProgressBounded ==
  Len(SelectSeq(rows, LAMBDA e : e.type = "progress" /\ ~Has(e.payload, "via"))) <= MaxProgress

\* Every run of a ticket's history is in exactly one block, also one whose cycle is
\* missing or listed after it; a cycle holds the triage that opened it and the
\* reworks it decided.
HistoryBlocksComplete ==
  LET blocks == presentHistory(history)
      all    == FlattenSeq([i \in DOMAIN blocks |-> blocks[i].runs])
  IN  /\ Len(all) = Len(history) /\ ToSet(all) = ToSet(history)
      /\ \A i \in DOMAIN blocks : blocks[i].kind = "cycle" =>
           \A j \in 2 .. Len(blocks[i].runs) : blocks[i].runs[j].deciding = blocks[i].runs[1].id

\* The card of a run and the history of a ticket tell all that happened, once,
\* and of the right call, in whatever order the rows came.
TimelineFaithful ==
  TimelineShowsTexts /\ DenialNamesItsCall /\ ProgressBounded /\ HistoryBlocksComplete

=============================================================================
