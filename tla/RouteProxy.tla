----------------------------- MODULE RouteProxy -----------------------------
(***************************************************************************)
(* The request handler of integrations/common/route_proxy.py with the      *)
(* state its threads share: the request slots, the cooldowns of primary    *)
(* models and the per-session entries of integrations/common/              *)
(* route_status.py.                                                        *)
(*                                                                         *)
(* Each connection is one request, handled by a thread of its own.  A step *)
(* ends where the thread has used a shared object (each has its own lock)  *)
(* or has heard from the upstream service or the client, so any order of   *)
(* the threads' uses is a behaviour.  An upstream call stands for          *)
(* everything _upstream does; the AttestationGate it passes is modelled    *)
(* in the module of that name, and its refusal is one of the failures of   *)
(* the call.  Requests, models and responses carry only what the handler   *)
(* branches on; log output is modelled only by the failure it reports.     *)
(***************************************************************************)
EXTENDS Naturals, Sequences, FiniteSets

CONSTANTS
    Requests,       \* the client connections
    Sessions,       \* logical sessions a request may name
    Models,         \* upstream models of primary routes
    NoSession,      \* the request names no valid session
    NoModel,        \* the body names no model
    Traffic,        \* what clients ask for, with the policy read for it
    MaxConcurrent,  \* MAX_CONCURRENT_REQUESTS
    MaxEntries      \* max_entries of RouteStatusStore

\* A catalogue request is GET /v1/models.  Without routes there is no
\* fallback, and routes need a session and a model.
Asks == {a \in [catalogue : BOOLEAN, session : Sessions \cup {NoSession},
                model : Models \cup {NoModel},
                routed : BOOLEAN, fallback : BOOLEAN] :
           /\ a.catalogue => a.session = NoSession /\ a.model = NoModel
           /\ a.routed => a.session # NoSession /\ a.model # NoModel
           /\ a.fallback => a.routed}

ASSUME ProxyAssumption ==
    /\ IsFiniteSet(Requests)
    /\ NoSession \notin Sessions
    /\ NoModel \notin Models
    /\ Traffic \subseteq Asks
    /\ MaxConcurrent \in Nat
    /\ MaxEntries \in Nat \ {0}

VARIABLES
    slots,       \* what is left of request_slots
    cooling,     \* the models whose cooldown has not expired
    entries,     \* _entries of the status store: session -> entry
    recency,     \* the order of that OrderedDict, oldest first
    pc,          \* where each request is
    req,         \* what the request asks for and the policy read for it
    usedPrimary, \* used_primary
    selected,    \* routeState and reason of the selected route
    status,      \* class of the status of the response in hand
    started,     \* _response_started
    forwarded,   \* whether a request that failed had sent any bytes on
    failure,     \* what trace.fail reports
    sent,          \* history: the candidates sent upstream, in order
    primaryFailed, \* history: the upstream failed a request on the primary
    latest         \* history: the newest request routed for each session

shared == <<slots, cooling, entries, recency>>
local == <<usedPrimary, selected, status, started, forwarded, failure>>
history == <<sent, primaryFailed, latest>>
vars == <<shared, pc, req, local, history>>

NoEntry == [request |-> "none"]
NoFailure == [kind |-> "none"]
NoRoute == [state |-> "none", reason |-> "none"]

Routes == {NoRoute, [state |-> "primary", reason |-> "primary"],
           [state |-> "fallback", reason |-> "retry"],
           [state |-> "fallback", reason |-> "cooldown"]}

Entries == [request : Requests, route : Routes,
            response : {"pending", "streaming", "complete", "failed"}]

Failures == [kind : {"upstream", "client"}, bytes : BOOLEAN,
             stage : {"request", "before-output", "after-output"}]

NoAsk == [catalogue |-> FALSE, session |-> NoSession, model |-> NoModel,
          routed |-> FALSE, fallback |-> FALSE]

HoldsSlot == {"starting", "reading", "choosing", "selecting", "asking",
              "tripping", "retrying", "preparing", "delivering", "sending",
              "clearing", "completing", "failing", "closing"}

TypeOK ==
    /\ slots \in 0 .. MaxConcurrent
    /\ cooling \subseteq Models
    /\ entries \in [Sessions -> Entries \cup {NoEntry}]
    /\ recency \in Seq({s \in Sessions : entries[s] # NoEntry})
    /\ Len(recency) <= MaxEntries
    /\ pc \in [Requests -> HoldsSlot \cup {"new", "refused", "done"}]
    /\ req \in [Requests -> Asks]
    /\ usedPrimary \in [Requests -> BOOLEAN]
    /\ selected \in [Requests -> Routes]
    /\ status \in [Requests -> {"none", "ok", "error", "retryable"}]
    /\ started \in [Requests -> BOOLEAN]
    /\ forwarded \in [Requests -> BOOLEAN]
    /\ failure \in [Requests -> Failures \cup {NoFailure}]
    /\ sent \in [Requests -> Seq({"primary", "fallback", "catalogue"})]
    /\ primaryFailed \in [Requests -> BOOLEAN]
    /\ latest \in [Sessions -> Requests \cup {"none"}]

Init ==
    /\ slots = MaxConcurrent
    /\ cooling = {}
    /\ entries = [s \in Sessions |-> NoEntry]
    /\ recency = <<>>
    /\ pc = [r \in Requests |-> "new"]
    /\ req = [r \in Requests |-> NoAsk]
    /\ usedPrimary = [r \in Requests |-> FALSE]
    /\ selected = [r \in Requests |-> NoRoute]
    /\ status = [r \in Requests |-> "none"]
    /\ started = [r \in Requests |-> FALSE]
    /\ forwarded = [r \in Requests |-> FALSE]
    /\ failure = [r \in Requests |-> NoFailure]
    /\ sent = [r \in Requests |-> <<>>]
    /\ primaryFailed = [r \in Requests |-> FALSE]
    /\ latest = [s \in Sessions |-> "none"]

Goto(r, location) == pc' = [pc EXCEPT ![r] = location]

-----------------------------------------------------------------------------
(* RouteProxyServer: a slot for every handler thread. *)

Accept(r) ==
    /\ pc[r] = "new" /\ slots > 0
    /\ slots' = slots - 1
    /\ Goto(r, "starting")
    /\ UNCHANGED <<cooling, entries, recency, req, local, history>>

\* The listener answers 503 and closes the connection.
Refuse(r) ==
    /\ pc[r] = "new" /\ slots = 0
    /\ Goto(r, "refused")
    /\ UNCHANGED <<shared, req, local, history>>

Start(r) ==
    /\ pc[r] = "starting"
    /\ Goto(r, "reading")
    /\ UNCHANGED <<shared, req, local, history>>

\* Faulty variant: process_request lets the exception through.
StartFailsLeaking(r) ==
    /\ pc[r] = "starting"
    /\ Goto(r, "done")
    /\ UNCHANGED <<shared, req, local, history>>

\* No thread could be started for the connection.
StartFails(r) ==
    /\ pc[r] = "starting"
    /\ slots' = slots + 1
    /\ Goto(r, "done")
    /\ UNCHANGED <<cooling, entries, recency, req, local, history>>

\* The `finally' of process_request_thread; the thread's variables are gone.
Close(r) ==
    /\ pc[r] = "closing"
    /\ slots' = slots + 1
    /\ usedPrimary' = [usedPrimary EXCEPT ![r] = FALSE]
    /\ selected' = [selected EXCEPT ![r] = NoRoute]
    /\ status' = [status EXCEPT ![r] = "none"]
    /\ started' = [started EXCEPT ![r] = FALSE]
    /\ forwarded' = [forwarded EXCEPT ![r] = FALSE]
    /\ failure' = [failure EXCEPT ![r] = NoFailure]
    /\ Goto(r, "done")
    /\ UNCHANGED <<cooling, entries, recency, req, history>>

-----------------------------------------------------------------------------
(* RouteStatusStore, each operation under its lock. *)

\* move_to_end of a session, which may be new.
MovedToEnd(s) ==
    LET at == {i \in 1 .. Len(recency) : recency[i] = s}
        others == IF at = {} THEN recency
                  ELSE LET i == CHOOSE i \in at : TRUE
                       IN  SubSeq(recency, 1, i - 1)
                             \o SubSeq(recency, i + 1, Len(recency))
    IN  Append(others, s)

StoreSelect(r, route) ==
    LET s == req[r].session
        order == MovedToEnd(s)
        evicted == IF Len(order) > MaxEntries THEN {Head(order)} ELSE {}
    IN
      /\ recency' = IF evicted = {} THEN order ELSE Tail(order)
      /\ entries' = [t \in Sessions |->
                       IF t \in evicted THEN NoEntry
                       ELSE IF t = s
                         THEN [request |-> r, route |-> route,
                               response |-> "pending"]
                         ELSE entries[t]]

\* Faulty variant: whichever request the session's entry is of.
StoreUpdateAny(r, response) ==
    /\ entries' = [s \in Sessions |->
         IF s = req[r].session /\ entries[s] # NoEntry /\ selected[r] # NoRoute
         THEN [request |-> r, route |-> selected[r], response |-> response]
         ELSE entries[s]]
    /\ UNCHANGED recency

\* Only the entry that request r itself selected is updated.
StoreUpdate(r, response) ==
    /\ entries' = [s \in Sessions |->
         IF /\ s = req[r].session /\ entries[s] # NoEntry /\ selected[r] # NoRoute
            /\ entries[s].request = r
         THEN [entries[s] EXCEPT !.response = response]
         ELSE entries[s]]
    /\ UNCHANGED recency

-----------------------------------------------------------------------------
(* The handler up to the upstream call. *)

Fail(r, kind, stage, bytes) ==
    /\ failure' = [failure EXCEPT
                     ![r] = [kind |-> kind, stage |-> stage, bytes |-> bytes]]
    /\ Goto(r, "failing")

\* The body is read; RouteIndex reads the session's frozen routes.  A request
\* without a model, or in a session whose routes for the model are not unique,
\* is not routed.
Read(r) ==
    /\ pc[r] = "reading"
    /\ \E ask \in Traffic :
         /\ req' = [req EXCEPT ![r] = ask]
         /\ usedPrimary' = [usedPrimary EXCEPT ![r] = ~ask.catalogue]
         /\ Goto(r, IF ask.catalogue THEN "asking"
                    ELSE IF ask.fallback THEN "choosing"
                    ELSE IF ask.routed THEN "selecting" ELSE "asking")
    /\ UNCHANGED <<shared, selected, status, started, forwarded, failure, history>>

\* The body is too large: 413, without a report.
TooLarge(r) ==
    /\ pc[r] = "reading"
    /\ Goto(r, "closing")
    /\ UNCHANGED <<shared, req, local, history>>

\* The client stops sending, or the session cannot be loaded.
ReadFails(r) ==
    /\ pc[r] = "reading"
    /\ Fail(r, "upstream", "request", FALSE)
    /\ UNCHANGED <<shared, req, usedPrimary, selected, status, started,
                   forwarded, history>>

\* cooldowns.active(primary).
Choose(r) ==
    /\ pc[r] = "choosing"
    /\ usedPrimary' = [usedPrimary EXCEPT ![r] = req[r].model \notin cooling]
    /\ Goto(r, "selecting")
    /\ UNCHANGED <<shared, req, selected, status, started, forwarded, failure,
                   history>>

Select(r) ==
    /\ pc[r] = "selecting"
    /\ LET route == IF usedPrimary[r]
                    THEN [state |-> "primary", reason |-> "primary"]
                    ELSE [state |-> "fallback", reason |-> "cooldown"]
       IN  /\ StoreSelect(r, route)
           /\ selected' = [selected EXCEPT ![r] = route]
    /\ latest' = [latest EXCEPT ![req[r].session] = r]
    /\ Goto(r, "asking")
    /\ UNCHANGED <<slots, cooling, req, usedPrimary, status, started, forwarded,
                   failure, sent, primaryFailed>>

-----------------------------------------------------------------------------
(* The upstream calls. *)

Candidate(r) == IF req[r].catalogue THEN "catalogue"
                ELSE IF usedPrimary[r] THEN "primary" ELSE "fallback"

\* used_primary and primary is not None and fallback_route is not None.
MayFallBack(r) == usedPrimary[r] /\ req[r].fallback

\* The upstream has failed the request on the route in hand.
Blame(r) == primaryFailed' = [primaryFailed EXCEPT ![r] = @ \/ usedPrimary[r]]

\* A call of _candidate_upstream (of _upstream for the catalogue), up to the
\* response headers.  A transformed body that is answered 400 or 422 is sent
\* once more untransformed, within the call.
Ask(r) ==
    /\ pc[r] = "asking"
    /\ sent' = [sent EXCEPT ![r] = Append(@, Candidate(r))]
    /\ \E class \in {"ok", "error", "retryable"} :
         /\ status' = [status EXCEPT ![r] = class]
         /\ IF MayFallBack(r) /\ class = "retryable"
            THEN Blame(r) /\ Goto(r, "tripping")
            ELSE UNCHANGED primaryFailed /\ Goto(r, "preparing")
    /\ UNCHANGED <<shared, req, usedPrimary, selected, started, forwarded,
                   failure, latest>>

\* No connection, no attested service, or no response headers.
AskFails(r) ==
    /\ pc[r] = "asking"
    /\ sent' = [sent EXCEPT ![r] = Append(@, Candidate(r))]
    /\ Fail(r, "upstream", "request", FALSE)
    /\ UNCHANGED <<shared, req, usedPrimary, selected, status, started,
                   forwarded, primaryFailed, latest>>

\* Faulty variant: a failure after output is retried as well.
TripAndRetry(r) ==
    /\ pc[r] = "tripping"
    /\ cooling' = cooling \cup {req[r].model}
    /\ Goto(r, "retrying")
    /\ UNCHANGED <<slots, entries, recency, req, local, history>>

\* cooldowns.trip(primary): before output the fallback follows, after output
\* the report of the failure.
Trip(r) ==
    /\ pc[r] = "tripping"
    /\ cooling' = cooling \cup {req[r].model}
    /\ Goto(r, IF started[r] THEN "failing" ELSE "retrying")
    /\ UNCHANGED <<slots, entries, recency, req, local, history>>

\* Faulty variant: the fallback is not made the selected route.
FallBackUnselected(r) ==
    /\ pc[r] = "retrying"
    /\ usedPrimary' = [usedPrimary EXCEPT ![r] = FALSE]
    /\ Goto(r, "asking")
    /\ UNCHANGED <<shared, req, selected, status, started, forwarded, failure,
                   history>>

\* _fallback_upstream selects the fallback, then asks it.
FallBack(r) ==
    /\ pc[r] = "retrying"
    /\ LET route == [state |-> "fallback", reason |-> "retry"]
       IN  /\ StoreSelect(r, route)
           /\ selected' = [selected EXCEPT ![r] = route]
    /\ usedPrimary' = [usedPrimary EXCEPT ![r] = FALSE]
    /\ Goto(r, "asking")
    /\ UNCHANGED <<slots, cooling, req, status, started, forwarded, failure,
                   history>>

-----------------------------------------------------------------------------
(* The response. *)

\* A bounded prelude has been read and validated.
Prepare(r) ==
    /\ pc[r] = "preparing"
    /\ Goto(r, IF req[r].catalogue THEN "sending" ELSE "delivering")
    /\ UNCHANGED <<shared, req, local, history>>

\* Faulty variant: whether the fallback was already used is not asked.
PreludeFailsAgain(r) ==
    /\ pc[r] = "preparing"
    /\ Blame(r)
    /\ \/ /\ req[r].fallback
          /\ Goto(r, "tripping")
          /\ UNCHANGED failure
       \/ /\ ~req[r].fallback
          /\ Fail(r, "upstream", "before-output", FALSE)
    /\ UNCHANGED <<shared, req, usedPrimary, selected, status, started,
                   forwarded, sent, latest>>

PreludeFails(r) ==
    /\ pc[r] = "preparing"
    /\ Blame(r)
    /\ \/ /\ MayFallBack(r)
          /\ Goto(r, "tripping")
          /\ UNCHANGED failure
       \/ /\ ~MayFallBack(r)
          /\ Fail(r, "upstream", "before-output", FALSE)
    /\ UNCHANGED <<shared, req, usedPrimary, selected, status, started,
                   forwarded, sent, latest>>

\* trace.streaming.
Deliver(r) ==
    /\ pc[r] = "delivering"
    /\ StoreUpdate(r, "streaming")
    /\ Goto(r, "sending")
    /\ UNCHANGED <<slots, cooling, req, local, history>>

\* The headers and the prelude go out.
SendHead(r) ==
    /\ pc[r] = "sending" /\ ~started[r]
    /\ started' = [started EXCEPT ![r] = TRUE]
    /\ UNCHANGED <<shared, pc, req, usedPrimary, selected, status, forwarded,
                   failure, history>>

\* The upstream breaks off after the prelude, which may be empty, and any
\* number of blocks.  The catalogue's handler takes every UpstreamStreamError
\* for one before output.
StreamBreaks(r) ==
    /\ pc[r] = "sending" /\ started[r]
    /\ Blame(r)
    /\ \E bytes \in BOOLEAN :
         /\ forwarded' = [forwarded EXCEPT ![r] = bytes]
         /\ failure' = [failure EXCEPT ![r] =
              [kind |-> "upstream", bytes |-> bytes,
               stage |-> IF req[r].catalogue THEN "before-output"
                         ELSE "after-output"]]
    /\ Goto(r, IF MayFallBack(r) THEN "tripping" ELSE "failing")
    /\ UNCHANGED <<shared, req, usedPrimary, selected, status, started, sent,
                   latest>>

\* The client is gone.  On the catalogue's path the error is handled as a
\* RouteProxyError, which is reported as a failed request of no bytes.
ClientLeaves(r) ==
    /\ pc[r] = "sending" /\ started[r]
    /\ \E bytes \in BOOLEAN :
         /\ forwarded' = [forwarded EXCEPT ![r] = bytes]
         /\ IF req[r].catalogue
            THEN Fail(r, "upstream", "request", FALSE)
            ELSE Fail(r, "client", "after-output", bytes)
    /\ UNCHANGED <<shared, req, usedPrimary, selected, status, started, history>>

\* The end of the body.
EndStream(r) ==
    /\ pc[r] = "sending" /\ started[r]
    /\ Goto(r, IF req[r].catalogue THEN "closing"
               ELSE IF /\ usedPrimary[r] /\ req[r].model # NoModel
                       /\ status[r] = "ok"
               THEN "clearing" ELSE "completing")
    /\ UNCHANGED <<shared, req, local, history>>

\* cooldowns.clear(primary).
Clear(r) ==
    /\ pc[r] = "clearing"
    /\ cooling' = cooling \ {req[r].model}
    /\ Goto(r, "completing")
    /\ UNCHANGED <<slots, entries, recency, req, local, history>>

\* trace.complete.
Complete(r) ==
    /\ pc[r] = "completing"
    /\ StoreUpdate(r, "complete")
    /\ Goto(r, "closing")
    /\ UNCHANGED <<slots, cooling, req, local, history>>

\* trace.fail, then a 502 unless the response has started.
Report(r) ==
    /\ pc[r] = "failing"
    /\ StoreUpdate(r, "failed")
    /\ Goto(r, "closing")
    /\ UNCHANGED <<slots, cooling, req, local, history>>

\* A cooldown runs out.
Expire(m) ==
    /\ m \in cooling
    /\ cooling' = cooling \ {m}
    /\ UNCHANGED <<slots, entries, recency, pc, req, local, history>>

Listen(r) == Accept(r) \/ Refuse(r) \/ Start(r) \/ StartFails(r) \/ Close(r)

Route(r) ==
    \/ Read(r) \/ TooLarge(r) \/ ReadFails(r) \/ Choose(r) \/ Select(r)
    \/ Ask(r) \/ AskFails(r) \/ Trip(r) \/ FallBack(r)

Respond(r) ==
    \/ Prepare(r) \/ PreludeFails(r) \/ Deliver(r) \/ SendHead(r)
    \/ StreamBreaks(r) \/ ClientLeaves(r) \/ EndStream(r)
    \/ Clear(r) \/ Complete(r) \/ Report(r)

Next ==
    \/ \E r \in Requests : Listen(r) \/ Route(r) \/ Respond(r)
    \/ \E m \in Models : Expire(m)

Spec == Init /\ [][Next]_vars

-----------------------------------------------------------------------------
(* Properties. *)

\* A slot is missing exactly for each connection that has a handler thread or
\* is about to get one: failed thread starts, failed requests and refused
\* connections neither lose a slot nor give one back twice.
SlotsAccounted ==
    slots + Cardinality({r \in Requests : pc[r] \in HoldsSlot}) = MaxConcurrent

\* The fallback comes after the primary and never the other way round, it is
\* asked for only by a request that found the primary cooling down or that
\* the primary has failed, and each is asked once at most.
OneFallback ==
    \A r \in Requests :
      LET is(route) == {i \in 1 .. Len(sent[r]) : sent[r][i] = route} IN
        /\ \A i \in is("fallback"), j \in is("primary") : j < i
        /\ is("fallback") # {} =>
             \/ primaryFailed[r]
             \/ /\ is("primary") = {}
                /\ pc[r] # "done" => selected[r].reason = "cooldown"
        /\ Len(sent[r]) <= 2
        /\ \A i, j \in 1 .. Len(sent[r]) : sent[r][i] = sent[r][j] => i = j

\* Once the response to the client has started, its request is never sent
\* upstream again, to whichever route.
NoReplay == [][\A r \in Requests : started[r] => sent'[r] = sent[r]]_vars

\* A model cools down only after an upstream has failed a request that was
\* sent to it as the primary and had a fallback: clients that leave, failing
\* fallbacks and sessions without a fallback cannot start a cooldown.
CooldownJustified ==
    \A m \in cooling :
      \E r \in Requests : req[r].model = m /\ req[r].fallback /\ primaryFailed[r]

\* What a session's entry says of its request is what that request did,
\* whatever other requests of the session selected or finished meanwhile: its
\* route is the one last asked, the reason is true, and once the request has
\* ended the entry says how.
StatusTruthful ==
    \A s \in Sessions : entries[s] # NoEntry =>
      LET r == entries[s].request
          route == entries[s].route
      IN
        /\ req[r].session = s
        /\ route.reason = "retry" => primaryFailed[r]
        /\ pc[r] # "done" => route = selected[r]
        /\ pc[r] \in {"preparing", "delivering", "sending"}
             => sent[r] # <<>> /\ sent[r][Len(sent[r])] = route.state
        /\ pc[r] = "closing"
             => entries[s].response =
                  IF failure[r] = NoFailure THEN "complete" ELSE "failed"
        /\ pc[r] = "done" => entries[s].response \in {"complete", "failed"}

\* The status line shows another request of a session than its latest only
\* when that request has meanwhile fallen back: answers that arrive late, and
\* failures reported late, do not bring an older request back.
StaleOnlyByRetry ==
    \A s \in Sessions :
      entries[s] # NoEntry /\ entries[s].request # latest[s]
        => entries[s].route.reason = "retry"
=============================================================================
