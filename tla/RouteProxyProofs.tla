-------------------------- MODULE RouteProxyProofs --------------------------
(***************************************************************************)
(* Proofs about RouteProxy for any number of connections, sessions and     *)
(* models.  The invariant follows each request along its way (Quiet and    *)
(* Journey), ties every cooldown to a request that caused it and counts    *)
(* the request slots.                                                      *)
(***************************************************************************)
EXTENDS RouteProxy, TLAPS, FiniteSetTheorems, SequenceTheorems

\* What of TypeOK the other invariants need.
ProxyType ==
    /\ slots \in 0 .. MaxConcurrent
    /\ cooling \subseteq Models
    /\ pc \in [Requests -> HoldsSlot \cup {"new", "refused", "done"}]
    /\ req \in [Requests -> Asks]
    /\ usedPrimary \in [Requests -> BOOLEAN]
    /\ selected \in [Requests -> Routes]
    /\ started \in [Requests -> BOOLEAN]
    /\ sent \in [Requests -> Seq({"primary", "fallback", "catalogue"})]
    /\ primaryFailed \in [Requests -> BOOLEAN]

Unsent == {"new", "refused", "starting", "reading", "choosing", "selecting"}
Answered == {"preparing", "delivering", "sending"}

\* A request that may still be sent upstream has not started its response.
Quiet(r) ==
    pc[r] \in Unsent \cup {"asking", "retrying", "preparing", "delivering"}
      => ~started[r]

\* Where a request has been by the time it is where it is.
Journey(r) ==
    /\ pc[r] \in Unsent => sent[r] = <<>> /\ ~primaryFailed[r]
    /\ pc[r] = "asking" =>
         \/ /\ sent[r] = <<>>
            /\ usedPrimary[r] \/ req[r].catalogue \/ selected[r].reason = "cooldown"
         \/ /\ sent[r] = <<"primary">> /\ primaryFailed[r]
            /\ ~usedPrimary[r] /\ ~req[r].catalogue
    /\ pc[r] = "choosing" => req[r].fallback
    /\ pc[r] = "selecting" =>
         req[r].routed /\ (~usedPrimary[r] => req[r].fallback)
    /\ pc[r] \in {"tripping", "retrying"} =>
         sent[r] = <<"primary">> /\ primaryFailed[r] /\ MayFallBack(r)
    /\ pc[r] \in Answered =>
         IF req[r].catalogue THEN sent[r] = <<"catalogue">>
         ELSE IF usedPrimary[r] THEN sent[r] = <<"primary">>
         ELSE sent[r] \in {<<"fallback">>, <<"primary", "fallback">>}
    /\ sent[r] \in {<<>>, <<"catalogue">>, <<"primary">>, <<"fallback">>,
                    <<"primary", "fallback">>}
    /\ sent[r] = <<"fallback">> /\ pc[r] # "done" => selected[r].reason = "cooldown"
    /\ sent[r] = <<"primary", "fallback">> => primaryFailed[r]

\* What asking another candidate makes of what was asked before.
LEMMA AppendSecond == Append(<<"primary">>, "fallback") = <<"primary", "fallback">>
  <1>. DEFINE S == {"primary", "fallback"}
              s == Append(<<"primary">>, "fallback")
              t == <<"primary", "fallback">>
  <1>1. s \in Seq(S) /\ Len(s) = 2 /\ s[1] = "primary" /\ s[2] = "fallback"
    OBVIOUS
  <1>2. t \in Seq(S) /\ Len(t) = 2 /\ t[1] = "primary" /\ t[2] = "fallback"
    OBVIOUS
  <1>. HIDE DEF S, s, t
  <1>3. \A i \in 1 .. Len(s) : s[i] = t[i]
    BY <1>1, <1>2
  <1>4. s = t
    BY ONLY <1>1, <1>2, <1>3, SeqEqual
  <1>. QED BY <1>4 DEF s, t

\* The ways a request may go.
LEMMA Itineraries ==
    /\ Append(<<>>, "catalogue") = <<"catalogue">>
    /\ Append(<<>>, "primary") = <<"primary">>
    /\ Append(<<>>, "fallback") = <<"fallback">>
    /\ Append(<<"primary">>, "fallback") = <<"primary", "fallback">>
  <1>1. \A a : Append(<<>>, a) = <<a>>
    OBVIOUS
  <1>. QED BY <1>1, AppendSecond

LEMMA ItinerariesDiffer ==
    /\ <<>> # <<"primary">> /\ <<"catalogue">> # <<"fallback">>
    /\ <<"primary">> # <<"fallback">>
    /\ <<"primary", "fallback">> # <<"fallback">>
    /\ <<"primary", "fallback">> # <<"catalogue">>
    /\ <<"primary", "fallback">> # <<"primary">>
  OBVIOUS

\* Only a request with a session and a model, so not the catalogue's, has a
\* fallback.
LEMMA RoutedAsks ==
    ASSUME ProxyAssumption, NEW ask \in Asks
    PROVE  /\ ask.fallback => ask.routed
           /\ ask.routed => /\ ~ask.catalogue
                            /\ ask.session \in Sessions
                            /\ ask.model \in Models
           /\ ask.fallback \in BOOLEAN /\ ask.routed \in BOOLEAN
           /\ ask.catalogue \in BOOLEAN
  BY DEF Asks, ProxyAssumption

\* The number of slots lent.
Holders == {r \in Requests : pc[r] \in HoldsSlot}

LEMMA HoldersFinite ==
    ASSUME ProxyAssumption
    PROVE  IsFiniteSet(Holders) /\ Cardinality(Holders) \in Nat
  BY FS_Subset, FS_CardinalityType DEF ProxyAssumption, Holders

LEMMA SlotIsOut ==
    ASSUME ProxyAssumption, SlotsAccounted, slots \in Nat,
           NEW r \in Requests, pc[r] \in HoldsSlot
    PROVE  slots < MaxConcurrent
  <1>1. r \in Holders /\ Holders # {}
    BY DEF Holders
  <1>2. Cardinality(Holders) # 0
    BY <1>1, HoldersFinite, FS_EmptySet
  <1>. QED
    BY <1>2, HoldersFinite DEF SlotsAccounted, Holders, ProxyAssumption

\* One step per action, here and in the lemmas below.
LEMMA TypeStep ==
    ASSUME ProxyAssumption, ProxyType, \A q \in Requests : Journey(q),
    SlotsAccounted,
           NEW r \in Requests, Listen(r) \/ Route(r) \/ Respond(r)
    PROVE  ProxyType'
  <1>. USE DEF ProxyType, HoldsSlot, Routes
  <1>1. CASE Accept(r)
    BY <1>1 DEF Accept, Goto, shared, local, history
  <1>2. CASE Refuse(r)
    BY <1>2 DEF Refuse, Goto, shared, local, history
  <1>3. CASE Start(r)
    BY <1>3 DEF Start, Goto, shared, local, history
  <1>4. CASE StartFails(r)
    <2>1. slots < MaxConcurrent
      BY <1>4, SlotIsOut DEF StartFails
    <2>. QED
      BY <1>4, <2>1 DEF StartFails, Goto, shared, local, history, ProxyAssumption
  <1>5. CASE Close(r)
    <2>1. slots < MaxConcurrent
      BY <1>5, SlotIsOut DEF Close
    <2>. QED
      BY <1>5, <2>1 DEF Close, Goto, shared, local, history, ProxyAssumption
  <1>6. CASE Read(r)
    BY <1>6 DEF Read, Goto, shared, local, history
  <1>7. CASE TooLarge(r)
    BY <1>7 DEF TooLarge, Goto, shared, local, history
  <1>8. CASE ReadFails(r)
    BY <1>8 DEF ReadFails, Goto, Fail, shared, local, history
  <1>9. CASE Choose(r)
    BY <1>9 DEF Choose, Goto, shared, local, history
  <1>10. CASE Select(r)
    BY <1>10 DEF Select, Goto, shared, local, history
  <1>11. CASE Ask(r)
    <2>1. Candidate(r) \in {"primary", "fallback", "catalogue"}
      BY DEF Candidate
    <2>2. sent' \in [Requests -> Seq({"primary", "fallback", "catalogue"})]
      <3>. DEFINE next == Append(sent[r], Candidate(r))
      <3>1. sent[r] \in Seq({"primary", "fallback", "catalogue"})
        OBVIOUS
      <3>2. next \in Seq({"primary", "fallback", "catalogue"})
        BY <2>1, <3>1
      <3>3. sent' = [sent EXCEPT ![r] = next]
        BY <1>11 DEF Ask
      <3>. HIDE DEF next
      <3>. QED BY <3>2, <3>3
    <2>. QED
      BY <1>11, <2>2 DEF Ask, Goto, Fail, Blame, shared, local, history
  <1>12. CASE AskFails(r)
    BY <1>12 DEF AskFails, Goto, Fail, Candidate, shared, local, history
  <1>13. CASE Trip(r)
    <2>1. req[r].model \in Models
      BY <1>13, RoutedAsks DEF Trip, Journey, MayFallBack
    <2>. QED
      BY <1>13, <2>1 DEF Trip, Goto, shared, local, history
  <1>14. CASE FallBack(r)
    BY <1>14 DEF FallBack, Goto, shared, local, history
  <1>15. CASE Prepare(r)
    BY <1>15 DEF Prepare, Goto, shared, local, history
  <1>16. CASE PreludeFails(r)
    BY <1>16 DEF PreludeFails, Goto, Blame, Fail, MayFallBack, shared, local,
       history
  <1>17. CASE Deliver(r)
    BY <1>17 DEF Deliver, Goto, shared, local, history
  <1>18. CASE SendHead(r)
    BY <1>18 DEF SendHead, Goto, shared, local, history
  <1>19. CASE StreamBreaks(r)
    BY <1>19 DEF StreamBreaks, Goto, Blame, MayFallBack, shared, local, history
  <1>20. CASE ClientLeaves(r)
    BY <1>20 DEF ClientLeaves, Goto, Fail, shared, local, history
  <1>21. CASE EndStream(r)
    BY <1>21 DEF EndStream, Goto, shared, local, history
  <1>22. CASE Clear(r)
    BY <1>22 DEF Clear, Goto, shared, local, history
  <1>23. CASE Complete(r)
    BY <1>23 DEF Complete, Goto, shared, local, history
  <1>24. CASE Report(r)
    BY <1>24 DEF Report, Goto, shared, local, history
  <1>. QED
    BY <1>1, <1>2, <1>3, <1>4, <1>5, <1>6, <1>7, <1>8, <1>9, <1>10, <1>11,
       <1>12, <1>13, <1>14, <1>15, <1>16, <1>17, <1>18, <1>19, <1>20, <1>21,
       <1>22, <1>23, <1>24 DEF Listen, Route, Respond

\* started is set while sending, and sending is not left for another call.
LEMMA QuietStep ==
    ASSUME ProxyType, \A q \in Requests : Quiet(q),
           NEW r \in Requests, Listen(r) \/ Route(r) \/ Respond(r)
    PROVE  \A q \in Requests : Quiet(q)'
  <1>. USE DEF ProxyType, Quiet, Unsent
  <1>1. CASE Accept(r)
    BY <1>1 DEF Accept, Goto, shared, local, history
  <1>2. CASE Refuse(r)
    BY <1>2 DEF Refuse, Goto, shared, local, history
  <1>3. CASE Start(r)
    BY <1>3 DEF Start, Goto, shared, local, history
  <1>4. CASE StartFails(r)
    BY <1>4 DEF StartFails, Goto, shared, local, history
  <1>5. CASE Close(r)
    BY <1>5 DEF Close, Goto, shared, local, history
  <1>6. CASE Read(r)
    BY <1>6 DEF Read, Goto, shared, local, history
  <1>7. CASE TooLarge(r)
    BY <1>7 DEF TooLarge, Goto, shared, local, history
  <1>8. CASE ReadFails(r)
    BY <1>8 DEF ReadFails, Goto, Fail, shared, local, history
  <1>9. CASE Choose(r)
    BY <1>9 DEF Choose, Goto, shared, local, history
  <1>10. CASE Select(r)
    BY <1>10 DEF Select, Goto, shared, local, history
  <1>11. CASE Ask(r)
    BY <1>11 DEF Ask, Goto, Blame, MayFallBack, Candidate, shared, local, history
  <1>12. CASE AskFails(r)
    BY <1>12 DEF AskFails, Goto, Fail, Candidate, shared, local, history
  <1>13. CASE Trip(r)
    BY <1>13 DEF Trip, Goto, shared, local, history
  <1>14. CASE FallBack(r)
    BY <1>14 DEF FallBack, Goto, shared, local, history
  <1>15. CASE Prepare(r)
    BY <1>15 DEF Prepare, Goto, shared, local, history
  <1>16. CASE PreludeFails(r)
    BY <1>16 DEF PreludeFails, Goto, Blame, Fail, MayFallBack, shared, local,
       history
  <1>17. CASE Deliver(r)
    BY <1>17 DEF Deliver, Goto, shared, local, history
  <1>18. CASE SendHead(r)
    BY <1>18 DEF SendHead, Goto, shared, local, history
  <1>19. CASE StreamBreaks(r)
    BY <1>19 DEF StreamBreaks, Goto, Blame, MayFallBack, shared, local, history
  <1>20. CASE ClientLeaves(r)
    BY <1>20 DEF ClientLeaves, Goto, Fail, shared, local, history
  <1>21. CASE EndStream(r)
    BY <1>21 DEF EndStream, Goto, shared, local, history
  <1>22. CASE Clear(r)
    BY <1>22 DEF Clear, Goto, shared, local, history
  <1>23. CASE Complete(r)
    BY <1>23 DEF Complete, Goto, shared, local, history
  <1>24. CASE Report(r)
    BY <1>24 DEF Report, Goto, shared, local, history
  <1>. QED
    BY <1>1, <1>2, <1>3, <1>4, <1>5, <1>6, <1>7, <1>8, <1>9, <1>10, <1>11,
       <1>12, <1>13, <1>14, <1>15, <1>16, <1>17, <1>18, <1>19, <1>20, <1>21,
       <1>22, <1>23, <1>24 DEF Listen, Route, Respond

\* Each action takes its own request one stage further.
LEMMA JourneyStep ==
    ASSUME ProxyAssumption, ProxyType, ProxyType',
           \A q \in Requests : Quiet(q) /\ Journey(q),
           NEW r \in Requests, Listen(r) \/ Route(r) \/ Respond(r)
    PROVE  \A q \in Requests : Journey(q)'
  <1>. USE DEF ProxyType, Quiet, Journey, Unsent, Answered, MayFallBack
  <1>0. ASSUME \A q \in Requests \ {r} :
                 /\ pc'[q] = pc[q] /\ req'[q] = req[q] /\ sent'[q] = sent[q]
                 /\ usedPrimary'[q] = usedPrimary[q] /\ selected'[q] = selected[q]
                 /\ primaryFailed'[q] = primaryFailed[q],
               Journey(r)'
        PROVE  \A q \in Requests : Journey(q)'
    <2>1. ASSUME NEW q \in Requests \ {r} PROVE Journey(q)'
      BY <1>0
    <2>. QED BY <1>0, <2>1
  <1>1. CASE Accept(r)
    BY <1>1 DEF Accept, Goto, shared, local, history
  <1>2. CASE Refuse(r)
    BY <1>2 DEF Refuse, Goto, shared, local, history
  <1>3. CASE Start(r)
    BY <1>3 DEF Start, Goto, shared, local, history
  <1>4. CASE StartFails(r)
    BY <1>4 DEF StartFails, Goto, shared, local, history
  <1>5. CASE Close(r)
    BY <1>5 DEF Close, Goto, shared, local, history
  <1>6. CASE Read(r)
    <2>1. \A q \in Requests \ {r} :
                 /\ pc'[q] = pc[q] /\ req'[q] = req[q] /\ sent'[q] = sent[q]
                 /\ usedPrimary'[q] = usedPrimary[q] /\ selected'[q] = selected[q]
                 /\ primaryFailed'[q] = primaryFailed[q]
      BY <1>6 DEF Read, Goto, local, history
    <2>2. Journey(r)'
      <3>1. PICK ask \in Traffic :
              /\ req'[r] = ask
              /\ usedPrimary'[r] = ~ask.catalogue
              /\ pc'[r] = IF ask.catalogue THEN "asking"
                          ELSE IF ask.fallback THEN "choosing"
                          ELSE IF ask.routed THEN "selecting" ELSE "asking"
        BY <1>6 DEF Read, Goto
      <3>2. /\ ask.fallback \in BOOLEAN /\ ask.routed \in BOOLEAN
            /\ ask.catalogue \in BOOLEAN
        BY <3>1, RoutedAsks DEF ProxyAssumption
      <3>3. sent'[r] = <<>> /\ ~primaryFailed'[r] /\ UNCHANGED selected
        BY <1>6 DEF Read, history
      <3>. QED BY <3>1, <3>2, <3>3
    <2>. QED BY <1>0, <2>1, <2>2
  <1>7. CASE TooLarge(r)
    BY <1>7 DEF TooLarge, Goto, shared, local, history
  <1>8. CASE ReadFails(r)
    BY <1>8 DEF ReadFails, Goto, Fail, shared, local, history
  <1>9. CASE Choose(r)
    <2>1. \A q \in Requests \ {r} :
                 /\ pc'[q] = pc[q] /\ req'[q] = req[q] /\ sent'[q] = sent[q]
                 /\ usedPrimary'[q] = usedPrimary[q] /\ selected'[q] = selected[q]
                 /\ primaryFailed'[q] = primaryFailed[q]
      BY <1>9 DEF Choose, Goto, local, history
    <2>2. Journey(r)'
      BY <1>9, RoutedAsks, Itineraries DEF Choose, Goto, Candidate, local,
         history, ProxyAssumption
    <2>. QED BY <1>0, <2>1, <2>2
  <1>10. CASE Select(r)
    <2>1. \A q \in Requests \ {r} :
                 /\ pc'[q] = pc[q] /\ req'[q] = req[q] /\ sent'[q] = sent[q]
                 /\ usedPrimary'[q] = usedPrimary[q] /\ selected'[q] = selected[q]
                 /\ primaryFailed'[q] = primaryFailed[q]
      BY <1>10 DEF Select, Goto, Routes, local, history
    <2>2. Journey(r)'
      BY <1>10, RoutedAsks, Itineraries DEF Select, Goto, Candidate, Routes,
         local, history, ProxyAssumption
    <2>. QED BY <1>0, <2>1, <2>2
  <1>11. CASE Ask(r)
    <2>1. \A q \in Requests \ {r} :
                 /\ pc'[q] = pc[q] /\ req'[q] = req[q] /\ sent'[q] = sent[q]
                 /\ usedPrimary'[q] = usedPrimary[q] /\ selected'[q] = selected[q]
                 /\ primaryFailed'[q] = primaryFailed[q]
      BY <1>11 DEF Ask, Goto, Blame, local, history
    <2>2. Journey(r)'
      <3>1. /\ sent'[r] = Append(sent[r], Candidate(r))
            /\ UNCHANGED <<usedPrimary, selected, req>>
        BY <1>11 DEF Ask
      <3>2. sent'[r] =
              IF req[r].catalogue THEN <<"catalogue">>
              ELSE IF usedPrimary[r] THEN <<"primary">>
              ELSE IF sent[r] = <<>> THEN <<"fallback">>
              ELSE <<"primary", "fallback">>
        BY <1>11, <3>1, Itineraries DEF Ask, Candidate
      <3>3. /\ sent'[r] = <<"fallback">> => selected[r].reason = "cooldown"
            /\ sent'[r] = <<"primary", "fallback">> => primaryFailed[r]
        BY <1>11, <3>2, ItinerariesDiffer DEF Ask
      <3>4. \/ /\ pc'[r] = "tripping" /\ MayFallBack(r)
               /\ primaryFailed'[r] = (primaryFailed[r] \/ usedPrimary[r])
            \/ pc'[r] = "preparing" /\ UNCHANGED primaryFailed
        BY <1>11 DEF Ask, Blame, Goto
      <3>5. MayFallBack(r) => ~req[r].catalogue
        BY RoutedAsks
      <3>. QED BY <3>1, <3>2, <3>3, <3>4, <3>5
    <2>. QED BY <1>0, <2>1, <2>2
  <1>12. CASE AskFails(r)
    <2>1. \A q \in Requests \ {r} :
                 /\ pc'[q] = pc[q] /\ req'[q] = req[q] /\ sent'[q] = sent[q]
                 /\ usedPrimary'[q] = usedPrimary[q] /\ selected'[q] = selected[q]
                 /\ primaryFailed'[q] = primaryFailed[q]
      BY <1>12 DEF AskFails, Goto, Fail, local, history
    <2>2. Journey(r)'
      <3>1. /\ sent'[r] = Append(sent[r], Candidate(r))
            /\ UNCHANGED <<usedPrimary, selected, req>>
        BY <1>12 DEF AskFails
      <3>2. sent'[r] =
              IF req[r].catalogue THEN <<"catalogue">>
              ELSE IF usedPrimary[r] THEN <<"primary">>
              ELSE IF sent[r] = <<>> THEN <<"fallback">>
              ELSE <<"primary", "fallback">>
        BY <1>12, <3>1, Itineraries DEF AskFails, Candidate
      <3>3. /\ sent'[r] = <<"fallback">> => selected[r].reason = "cooldown"
            /\ sent'[r] = <<"primary", "fallback">> => primaryFailed[r]
        BY <1>12, <3>2, ItinerariesDiffer DEF AskFails
      <3>4. pc'[r] = "failing" /\ UNCHANGED primaryFailed
        BY <1>12 DEF AskFails, Fail, Goto
      <3>. QED BY <3>1, <3>2, <3>3, <3>4
    <2>. QED BY <1>0, <2>1, <2>2
  <1>13. CASE Trip(r)
    BY <1>13 DEF Trip, Goto, shared, local, history
  <1>14. CASE FallBack(r)
    <2>1. \A q \in Requests \ {r} :
                 /\ pc'[q] = pc[q] /\ req'[q] = req[q] /\ sent'[q] = sent[q]
                 /\ usedPrimary'[q] = usedPrimary[q] /\ selected'[q] = selected[q]
                 /\ primaryFailed'[q] = primaryFailed[q]
      BY <1>14 DEF FallBack, Goto, local, history
    <2>2. Journey(r)'
      BY <1>14, RoutedAsks, Itineraries DEF FallBack, Goto, Candidate, local,
         history, ProxyAssumption
    <2>. QED BY <1>0, <2>1, <2>2
  <1>15. CASE Prepare(r)
    BY <1>15 DEF Prepare, Goto, shared, local, history
  <1>16. CASE PreludeFails(r)
    <2>1. \A q \in Requests \ {r} :
                 /\ pc'[q] = pc[q] /\ req'[q] = req[q] /\ sent'[q] = sent[q]
                 /\ usedPrimary'[q] = usedPrimary[q] /\ selected'[q] = selected[q]
                 /\ primaryFailed'[q] = primaryFailed[q]
      BY <1>16 DEF PreludeFails, Goto, Blame, Fail, local, history
    <2>2. Journey(r)'
      <3>1. /\ pc'[r] = IF MayFallBack(r) THEN "tripping" ELSE "failing"
            /\ UNCHANGED <<usedPrimary, selected, req, sent>>
            /\ primaryFailed'[r] = (primaryFailed[r] \/ usedPrimary[r])
        BY <1>16 DEF PreludeFails, Fail, Blame, Goto
      <3>2. MayFallBack(r) => ~req[r].catalogue
        BY RoutedAsks
      <3>. QED BY <1>16, <3>1, <3>2 DEF PreludeFails
    <2>. QED BY <1>0, <2>1, <2>2
  <1>17. CASE Deliver(r)
    BY <1>17 DEF Deliver, Goto, shared, local, history
  <1>18. CASE SendHead(r)
    BY <1>18 DEF SendHead, Goto, shared, local, history
  <1>19. CASE StreamBreaks(r)
    <2>1. \A q \in Requests \ {r} :
                 /\ pc'[q] = pc[q] /\ req'[q] = req[q] /\ sent'[q] = sent[q]
                 /\ usedPrimary'[q] = usedPrimary[q] /\ selected'[q] = selected[q]
                 /\ primaryFailed'[q] = primaryFailed[q]
      BY <1>19 DEF StreamBreaks, Goto, Blame, local, history
    <2>2. Journey(r)'
      <3>1. /\ pc'[r] = IF MayFallBack(r) THEN "tripping" ELSE "failing"
            /\ UNCHANGED <<usedPrimary, selected, req, sent>>
            /\ primaryFailed'[r] = (primaryFailed[r] \/ usedPrimary[r])
        BY <1>19 DEF StreamBreaks, Blame, Goto
      <3>2. MayFallBack(r) => ~req[r].catalogue
        BY RoutedAsks
      <3>. QED BY <1>19, <3>1, <3>2 DEF StreamBreaks
    <2>. QED BY <1>0, <2>1, <2>2
  <1>20. CASE ClientLeaves(r)
    <2>1. \A q \in Requests \ {r} :
                 /\ pc'[q] = pc[q] /\ req'[q] = req[q] /\ sent'[q] = sent[q]
                 /\ usedPrimary'[q] = usedPrimary[q] /\ selected'[q] = selected[q]
                 /\ primaryFailed'[q] = primaryFailed[q]
      BY <1>20 DEF ClientLeaves, Goto, Fail, local, history
    <2>2. Journey(r)'
      <3>1. pc'[r] = "failing" /\ UNCHANGED <<usedPrimary, selected, req, history>>
        BY <1>20 DEF ClientLeaves, Fail, Goto
      <3>. QED BY <1>20, <3>1 DEF ClientLeaves, history
    <2>. QED BY <1>0, <2>1, <2>2
  <1>21. CASE EndStream(r)
    BY <1>21 DEF EndStream, Goto, shared, local, history
  <1>22. CASE Clear(r)
    BY <1>22 DEF Clear, Goto, shared, local, history
  <1>23. CASE Complete(r)
    BY <1>23 DEF Complete, Goto, shared, local, history
  <1>24. CASE Report(r)
    BY <1>24 DEF Report, Goto, shared, local, history
  <1>. QED
    BY <1>1, <1>2, <1>3, <1>4, <1>5, <1>6, <1>7, <1>8, <1>9, <1>10, <1>11,
       <1>12, <1>13, <1>14, <1>15, <1>16, <1>17, <1>18, <1>19, <1>20, <1>21,
       <1>22, <1>23, <1>24 DEF Listen, Route, Respond

\* A cooldown starts only at Trip, whose request is the one to blame for it;
\* the request that explains a cooldown has read what it asks for.
LEMMA CooldownStep ==
    ASSUME ProxyAssumption, ProxyType, CooldownJustified,
           \A q \in Requests : Journey(q),
           NEW r \in Requests, Listen(r) \/ Route(r) \/ Respond(r)
    PROVE  CooldownJustified'
  <1>1. cooling' \subseteq cooling \cup (IF Trip(r) THEN {req[r].model} ELSE {})
    BY DEF Listen, Route, Respond, shared, local, history, Accept, Refuse,
       Start, StartFails, Close, Read, TooLarge, ReadFails, Choose, Select, Ask,
       AskFails, Trip, FallBack, Prepare, PreludeFails, Deliver, SendHead,
       StreamBreaks, ClientLeaves, EndStream, Clear, Complete, Report
  <1>2. \A q \in Requests :
          primaryFailed[q] => primaryFailed'[q] /\ req'[q] = req[q]
    <2>. SUFFICES ASSUME NEW q \in Requests, primaryFailed[q]
                  PROVE  primaryFailed'[q] /\ req'[q] = req[q]
      OBVIOUS
    <2>1. CASE Read(r)
      BY <2>1 DEF Read, history, ProxyType, Journey, Unsent
    <2>2. CASE ~Read(r)
      <3>1. req' = req
        BY <2>2 DEF Listen, Route, Respond, shared, local, history, Accept,
           Refuse, Start, StartFails, Close, Read, TooLarge, ReadFails, Choose,
           Select, Ask, AskFails, Trip, FallBack, Prepare, PreludeFails,
           Deliver, SendHead, StreamBreaks, ClientLeaves, EndStream, Clear,
           Complete, Report
      <3>2. primaryFailed'[q]
        BY DEF Listen, Route, Respond, Blame, ProxyType, shared, local, history,
           Accept, Refuse, Start, StartFails, Close, Read, TooLarge, ReadFails,
           Choose, Select, Ask, AskFails, Trip, FallBack, Prepare, PreludeFails,
           Deliver, SendHead, StreamBreaks, ClientLeaves, EndStream, Clear,
           Complete, Report
      <3>. QED BY <3>1, <3>2
    <2>. QED BY <2>1, <2>2
  <1>3. ASSUME Trip(r)
        PROVE  req'[r].model = req[r].model /\ req'[r].fallback /\ primaryFailed'[r]
    BY <1>3 DEF Trip, history, Journey, MayFallBack
  <1>. QED BY <1>1, <1>2, <1>3 DEF CooldownJustified

LEMMA SlotsStep ==
    ASSUME ProxyAssumption, ProxyType, SlotsAccounted,
           NEW r \in Requests, Listen(r) \/ Route(r) \/ Respond(r)
    PROVE  SlotsAccounted'
  <1>. USE DEF ProxyType
  <1>0. Cardinality(Holders) \in Nat /\ slots + Cardinality(Holders) = MaxConcurrent
    BY HoldersFinite DEF SlotsAccounted, Holders
  <1>1. CASE Accept(r)
    <2>1. /\ slots' = slots - 1 /\ pc[r] = "new"
          /\ pc' = [pc EXCEPT ![r] = "starting"]
      BY <1>1 DEF Accept, Goto
    <2>2. Holders' = Holders \cup {r} /\ r \notin Holders
      BY <2>1 DEF HoldsSlot, Holders
    <2>3. Cardinality(Holders') = Cardinality(Holders) + 1
      BY <2>2, HoldersFinite, FS_AddElement
    <2>. QED BY <1>0, <2>1, <2>3 DEF SlotsAccounted, Holders
  <1>2. CASE StartFails(r) \/ Close(r)
    <2>1. /\ slots' = slots + 1 /\ pc[r] \in {"starting", "closing"}
          /\ pc' = [pc EXCEPT ![r] = "done"]
      BY <1>2 DEF StartFails, Close, Goto
    <2>2. Holders' = Holders \ {r} /\ r \in Holders
      BY <2>1 DEF HoldsSlot, Holders
    <2>3. Cardinality(Holders') = Cardinality(Holders) - 1
      BY <2>2, HoldersFinite, FS_RemoveElement
    <2>. QED BY <1>0, <2>1, <2>3 DEF SlotsAccounted, Holders
  <1>3. CASE ~Accept(r) /\ ~StartFails(r) /\ ~Close(r)
    <2>1. \/ UNCHANGED pc
          \/ \E there \in HoldsSlot : pc' = [pc EXCEPT ![r] = there]
                                      /\ pc[r] \in HoldsSlot
          \/ pc' = [pc EXCEPT ![r] = "refused"] /\ pc[r] = "new"
      BY <1>3 DEF HoldsSlot, Goto, Fail, Listen, Route, Respond, shared, local,
                  history,
                  Refuse, Start, Read, TooLarge, ReadFails, Choose, Select, Ask,
                  AskFails, Trip, FallBack, Prepare, PreludeFails, Deliver,
                  SendHead, StreamBreaks, ClientLeaves, EndStream, Clear,
                  Complete, Report
    <2>2. Holders' = Holders
      BY <2>1 DEF HoldsSlot, Holders
    <2>3. slots' = slots
      BY <1>3 DEF Listen, Route, Respond, StoreSelect, StoreUpdate, shared,
                  local, history,
                  Refuse, Start, Read, TooLarge, ReadFails, Choose, Select, Ask,
                  AskFails, Trip, FallBack, Prepare, PreludeFails, Deliver,
                  SendHead, StreamBreaks, ClientLeaves, EndStream, Clear,
                  Complete, Report
    <2>. QED BY <1>0, <2>2, <2>3 DEF SlotsAccounted, Holders
  <1>. QED BY <1>1, <1>2, <1>3

-----------------------------------------------------------------------------
(* The status store. *)

\* A request that has failed knows how, and only such a request.
Outcome(r) ==
    /\ pc[r] \notin {"failing", "tripping", "closing"} => failure[r] = NoFailure
    /\ pc[r] = "failing" => failure[r] # NoFailure
    /\ pc[r] = "tripping" => (started[r] <=> failure[r] # NoFailure)

\* StatusTruthful of one session, with what keeps it so.
Recorded(s) ==
    entries[s] # NoEntry =>
      LET r == entries[s].request
          route == entries[s].route
      IN
        /\ r \in Requests
        /\ pc[r] \notin Unsent
        /\ req[r].session = s /\ req[r].routed
        /\ route.reason = "retry" => primaryFailed[r]
        /\ pc[r] # "done" => route = selected[r] /\ route.state = Candidate(r)
        /\ pc[r] = "closing"
             => entries[s].response =
                  IF failure[r] = NoFailure THEN "complete" ELSE "failed"
        /\ pc[r] = "done" => entries[s].response \in {"complete", "failed"}

StatusType ==
    /\ entries \in [Sessions -> Entries \cup {NoEntry}]
    /\ failure \in [Requests -> Failures \cup {NoFailure}]

LEMMA FailureMade ==
    ASSUME NEW kind \in {"upstream", "client"}, NEW bytes \in BOOLEAN,
           NEW stage \in {"request", "before-output", "after-output"}
    PROVE  /\ [kind |-> kind, stage |-> stage, bytes |-> bytes] \in Failures
           /\ [kind |-> kind, stage |-> stage, bytes |-> bytes] # NoFailure
  <1>. DEFINE f == [kind |-> kind, stage |-> stage, bytes |-> bytes]
  <1>1. f \in Failures
    BY DEF Failures
  <1>2. f.kind # NoFailure.kind
    BY DEF NoFailure
  <1>. QED BY <1>1, <1>2

\* Only the four failing actions make a failure, and Close forgets it.
LEMMA OutcomeStep ==
    ASSUME ProxyType, StatusType,
           \A q \in Requests : Quiet(q) /\ Outcome(q),
           NEW r \in Requests, Listen(r) \/ Route(r) \/ Respond(r)
    PROVE  /\ failure' \in [Requests -> Failures \cup {NoFailure}]
           /\ \A q \in Requests : Outcome(q)'
  <1>. USE DEF ProxyType, StatusType, Quiet, Outcome, Unsent
  <1>1. CASE Accept(r)
    BY <1>1 DEF Accept, Goto, shared, local, history
  <1>2. CASE Refuse(r)
    BY <1>2 DEF Refuse, Goto, shared, local, history
  <1>3. CASE Start(r)
    BY <1>3 DEF Start, Goto, shared, local, history
  <1>4. CASE StartFails(r)
    BY <1>4 DEF StartFails, Goto, shared, local, history
  <1>5. CASE Close(r)
    BY <1>5 DEF Close, Goto, shared, local, history
  <1>6. CASE Read(r)
    BY <1>6 DEF Read, Goto, shared, local, history
  <1>7. CASE TooLarge(r)
    BY <1>7 DEF TooLarge, Goto, shared, local, history
  <1>8. CASE ReadFails(r)
    BY <1>8, FailureMade DEF ReadFails, Goto, Fail, shared, local, history
  <1>9. CASE Choose(r)
    BY <1>9 DEF Choose, Goto, shared, local, history
  <1>10. CASE Select(r)
    BY <1>10 DEF Select, Goto, shared, local, history
  <1>11. CASE Ask(r)
    BY <1>11 DEF Ask, Goto, Blame, shared, local, history
  <1>12. CASE AskFails(r)
    BY <1>12, FailureMade DEF AskFails, Goto, Fail, shared, local, history
  <1>13. CASE Trip(r)
    BY <1>13 DEF Trip, Goto, shared, local, history
  <1>14. CASE FallBack(r)
    BY <1>14 DEF FallBack, Goto, shared, local, history
  <1>15. CASE Prepare(r)
    BY <1>15 DEF Prepare, Goto, shared, local, history
  <1>16. CASE PreludeFails(r)
    BY <1>16, FailureMade DEF PreludeFails, Goto, Blame, Fail, shared, local,
       history
  <1>17. CASE Deliver(r)
    BY <1>17 DEF Deliver, Goto, shared, local, history
  <1>18. CASE SendHead(r)
    BY <1>18 DEF SendHead, Goto, shared, local, history
  <1>19. CASE StreamBreaks(r)
    <2>1. PICK kind \in {"upstream", "client"}, bytes \in BOOLEAN,
               stage \in {"request", "before-output", "after-output"} :
            failure' = [failure EXCEPT ![r] =
                          [kind |-> kind, stage |-> stage, bytes |-> bytes]]
      BY <1>19 DEF StreamBreaks
    <2>2. /\ failure' \in [Requests -> Failures \cup {NoFailure}]
          /\ failure'[r] # NoFailure
          /\ \A q \in Requests \ {r} : failure'[q] = failure[q]
      BY <2>1, FailureMade
    <2>3. /\ pc' = [pc EXCEPT ![r] = pc'[r]] /\ started' = started
          /\ started[r] /\ pc'[r] \in {"failing", "tripping"}
      BY <1>19 DEF StreamBreaks, Goto
    <2>. QED BY <2>2, <2>3
  <1>20. CASE ClientLeaves(r)
    <2>1. PICK kind \in {"upstream", "client"}, bytes \in BOOLEAN,
               stage \in {"request", "before-output", "after-output"} :
            failure' = [failure EXCEPT ![r] =
                          [kind |-> kind, stage |-> stage, bytes |-> bytes]]
      BY <1>20 DEF ClientLeaves, Fail
    <2>2. /\ failure' \in [Requests -> Failures \cup {NoFailure}]
          /\ failure'[r] # NoFailure
          /\ \A q \in Requests \ {r} : failure'[q] = failure[q]
      BY <2>1, FailureMade
    <2>3. /\ pc' = [pc EXCEPT ![r] = pc'[r]] /\ started' = started
          /\ started[r] /\ pc'[r] \in {"failing", "tripping"}
      BY <1>20 DEF ClientLeaves, Goto, Fail
    <2>. QED BY <2>2, <2>3
  <1>21. CASE EndStream(r)
    BY <1>21 DEF EndStream, Goto, shared, local, history
  <1>22. CASE Clear(r)
    BY <1>22 DEF Clear, Goto, shared, local, history
  <1>23. CASE Complete(r)
    BY <1>23 DEF Complete, Goto, shared, local, history
  <1>24. CASE Report(r)
    BY <1>24 DEF Report, Goto, shared, local, history
  <1>. QED
    BY <1>1, <1>2, <1>3, <1>4, <1>5, <1>6, <1>7, <1>8, <1>9, <1>10, <1>11,
       <1>12, <1>13, <1>14, <1>15, <1>16, <1>17, <1>18, <1>19, <1>20, <1>21,
       <1>22, <1>23, <1>24 DEF Listen, Route, Respond

\* What StoreSelect and StoreUpdate do to the entries.
LEMMA SelectEntries ==
    ASSUME NEW r \in Requests, NEW route \in Routes, StatusType,
           StoreSelect(r, route), ProxyType
    PROVE  /\ entries' \in [Sessions -> Entries \cup {NoEntry}]
           /\ \A s \in Sessions :
                \/ entries'[s] = NoEntry
                \/ s # req[r].session /\ entries'[s] = entries[s]
                \/ /\ s = req[r].session
                   /\ entries'[s] = [request |-> r, route |-> route,
                                     response |-> "pending"]
  <1>1. [request |-> r, route |-> route, response |-> "pending"] \in Entries
    BY DEF Entries
  <1>2. PICK evicted :
          entries' = [t \in Sessions |->
                        IF t \in evicted THEN NoEntry
                        ELSE IF t = req[r].session
                          THEN [request |-> r, route |-> route,
                                response |-> "pending"]
                          ELSE entries[t]]
    BY DEF StoreSelect
  <1>. QED BY <1>1, <1>2 DEF StatusType

LEMMA UpdateEntries ==
    ASSUME NEW r \in Requests, NEW response \in {"streaming", "complete", "failed"},
           StatusType, StoreUpdate(r, response)
    PROVE  /\ entries' \in [Sessions -> Entries \cup {NoEntry}]
           /\ \A s \in Sessions : entries[s] = NoEntry => entries'[s] = NoEntry
           /\ \A s \in Sessions : entries[s] # NoEntry =>
                /\ entries'[s].request = entries[s].request
                /\ entries'[s].route = entries[s].route
                /\ entries'[s].response =
                     IF /\ s = req[r].session /\ selected[r] # NoRoute
                        /\ entries[s].request = r
                     THEN response ELSE entries[s].response
  BY DEF StatusType, StoreUpdate, Entries

\* Each session's entry is kept true by the request it belongs to; what other
\* requests do leaves it alone or replaces it.
LEMMA RecordedStep ==
    ASSUME ProxyAssumption, ProxyType, StatusType,
           \A q \in Requests : Journey(q) /\ Outcome(q),
           \A s \in Sessions : Recorded(s),
           NEW r \in Requests, Listen(r) \/ Route(r) \/ Respond(r)
    PROVE  /\ entries' \in [Sessions -> Entries \cup {NoEntry}]
           /\ \A s \in Sessions : Recorded(s)'
  <1>. USE DEF ProxyType, Recorded, Unsent
  <1>1. CASE Accept(r)
    BY <1>1 DEF Accept, Goto, shared, local, history, StatusType, Candidate, Journey
  <1>2. CASE Refuse(r)
    BY <1>2 DEF Refuse, Goto, shared, local, history, StatusType, Candidate, Journey
  <1>3. CASE Start(r)
    BY <1>3 DEF Start, Goto, shared, local, history, StatusType, Candidate, Journey
  <1>4. CASE StartFails(r)
    BY <1>4 DEF StartFails, Goto, shared, local, history, StatusType, Candidate,
       Journey
  <1>5. CASE Close(r)
    BY <1>5 DEF Close, Goto, shared, local, history, StatusType, Candidate, Journey
  <1>6. CASE Read(r)
    BY <1>6 DEF Read, Goto, shared, local, history, StatusType, Candidate, Journey
  <1>7. CASE TooLarge(r)
    BY <1>7 DEF TooLarge, Goto, shared, local, history, StatusType, Candidate,
       Journey
  <1>8. CASE ReadFails(r)
    BY <1>8 DEF ReadFails, Goto, Fail, shared, local, history, StatusType,
       Candidate, Journey
  <1>9. CASE Choose(r)
    BY <1>9 DEF Choose, Goto, shared, local, history, StatusType, Candidate, Journey
  <1>10. CASE Select(r)
    <2>1. PICK route \in Routes :
            /\ StoreSelect(r, route) /\ selected' = [selected EXCEPT ![r] = route]
            /\ route.state = Candidate(r)'
            /\ (route.reason = "retry" => primaryFailed'[r])
            /\ route.state # "none"
      <3>1. /\ ~req[r].catalogue
            /\ UNCHANGED <<req, usedPrimary>>
        BY <1>10, RoutedAsks DEF Select, Journey
      <3>. DEFINE route == IF usedPrimary[r]
                           THEN [state |-> "primary", reason |-> "primary"]
                           ELSE [state |-> "fallback", reason |-> "cooldown"]
      <3>2. StoreSelect(r, route) /\ selected' = [selected EXCEPT ![r] = route]
        BY <1>10 DEF Select
      <3>3. /\ route \in Routes /\ route.reason # "retry" /\ route.state # "none"
            /\ route.state = IF usedPrimary[r] THEN "primary" ELSE "fallback"
        BY DEF Routes
      <3>4. route.state = Candidate(r)'
        BY <3>1, <3>3 DEF Candidate
      <3>. QED BY <3>2, <3>3, <3>4
    <2>2. req[r].routed /\ pc'[r] = "asking" /\ UNCHANGED <<req, primaryFailed, failure>>
      BY <1>10, RoutedAsks DEF Select, Goto, Journey, MayFallBack, history
    <2>3. \A q \in Requests \ {r} :
            /\ pc'[q] = pc[q] /\ selected'[q] = selected[q]
            /\ usedPrimary'[q] = usedPrimary[q]
      BY <1>10 DEF Select, Goto
    <2>4. /\ entries' \in [Sessions -> Entries \cup {NoEntry}]
          /\ \A s \in Sessions :
               \/ entries'[s] = NoEntry
               \/ s # req[r].session /\ entries'[s] = entries[s]
               \/ /\ s = req[r].session
                  /\ entries'[s] = [request |-> r, route |-> route,
                                    response |-> "pending"]
      <3>. HIDE DEF ProxyType, Recorded
      <3>. QED BY <2>1, SelectEntries
    <2>5. ASSUME NEW s \in Sessions, entries'[s] # NoEntry
          PROVE  Recorded(s)'
      <3>1. CASE /\ s = req[r].session
                 /\ entries'[s].request = r /\ entries'[s].route = selected'[r]
                 /\ entries'[s].route.state = Candidate(r)'
                 /\ entries'[s].route.reason = "retry" => primaryFailed'[r]
        BY <2>2, <3>1
      <3>2. CASE s # req[r].session /\ entries'[s] = entries[s]
        <4>0. PICK q \in Requests : q = entries[s].request
          BY <2>5, <3>2
        <4>1. q # r
          BY <2>5, <3>2, <4>0
        <4>2. Candidate(q)' = Candidate(q)
          BY <2>2, <2>3, <4>1 DEF Candidate
        <4>. QED BY <2>2, <2>3, <2>5, <3>2, <4>0, <4>1, <4>2
      <3>3. \/ s # req[r].session /\ entries'[s] = entries[s]
            \/ /\ s = req[r].session
               /\ entries'[s] = [request |-> r, route |-> route,
                                 response |-> "pending"]
        BY <2>4, <2>5
      <3>4. selected'[r] = route
        BY <2>1
      <3>5. CASE s = req[r].session
        <4>1. entries'[s].request = r /\ entries'[s].route = route
          BY <3>3, <3>5
        <4>. QED BY <2>1, <3>1, <3>4, <3>5, <4>1
      <3>. QED BY <3>2, <3>3, <3>5
    <2>6. ASSUME NEW s \in Sessions PROVE Recorded(s)'
      BY <2>5
    <2>. QED BY <2>4, <2>6
  <1>11. CASE Ask(r)
    BY <1>11 DEF Ask, Goto, Blame, shared, local, history, StatusType,
       Candidate, Journey
  <1>12. CASE AskFails(r)
    BY <1>12 DEF AskFails, Goto, Fail, shared, local, history, StatusType,
       Candidate, Journey
  <1>13. CASE Trip(r)
    BY <1>13 DEF Trip, Goto, shared, local, history, StatusType, Candidate, Journey
  <1>14. CASE FallBack(r)
    <2>1. PICK route \in Routes :
            /\ StoreSelect(r, route) /\ selected' = [selected EXCEPT ![r] = route]
            /\ route.state = Candidate(r)'
            /\ (route.reason = "retry" => primaryFailed'[r])
            /\ route.state # "none"
      BY <1>14, RoutedAsks DEF FallBack, Routes, Candidate, Journey,
         MayFallBack, history
    <2>2. req[r].routed /\ pc'[r] = "asking" /\ UNCHANGED <<req, primaryFailed, failure>>
      BY <1>14, RoutedAsks DEF FallBack, Goto, Journey, MayFallBack, history
    <2>3. \A q \in Requests \ {r} :
            /\ pc'[q] = pc[q] /\ selected'[q] = selected[q]
            /\ usedPrimary'[q] = usedPrimary[q]
      BY <1>14 DEF FallBack, Goto
    <2>4. /\ entries' \in [Sessions -> Entries \cup {NoEntry}]
          /\ \A s \in Sessions :
               \/ entries'[s] = NoEntry
               \/ s # req[r].session /\ entries'[s] = entries[s]
               \/ /\ s = req[r].session
                  /\ entries'[s] = [request |-> r, route |-> route,
                                    response |-> "pending"]
      <3>. HIDE DEF ProxyType, Recorded
      <3>. QED BY <2>1, SelectEntries
    <2>5. ASSUME NEW s \in Sessions, entries'[s] # NoEntry
          PROVE  Recorded(s)'
      <3>1. CASE /\ s = req[r].session
                 /\ entries'[s].request = r /\ entries'[s].route = selected'[r]
                 /\ entries'[s].route.state = Candidate(r)'
                 /\ entries'[s].route.reason = "retry" => primaryFailed'[r]
        BY <2>2, <3>1
      <3>2. CASE s # req[r].session /\ entries'[s] = entries[s]
        <4>0. PICK q \in Requests : q = entries[s].request
          BY <2>5, <3>2
        <4>1. q # r
          BY <2>5, <3>2, <4>0
        <4>2. Candidate(q)' = Candidate(q)
          BY <2>2, <2>3, <4>1 DEF Candidate
        <4>. QED BY <2>2, <2>3, <2>5, <3>2, <4>0, <4>1, <4>2
      <3>3. \/ s # req[r].session /\ entries'[s] = entries[s]
            \/ /\ s = req[r].session
               /\ entries'[s] = [request |-> r, route |-> route,
                                 response |-> "pending"]
        BY <2>4, <2>5
      <3>4. selected'[r] = route
        BY <2>1
      <3>5. CASE s = req[r].session
        <4>1. entries'[s].request = r /\ entries'[s].route = route
          BY <3>3, <3>5
        <4>. QED BY <2>1, <3>1, <3>4, <3>5, <4>1
      <3>. QED BY <3>2, <3>3, <3>5
    <2>6. ASSUME NEW s \in Sessions PROVE Recorded(s)'
      BY <2>5
    <2>. QED BY <2>4, <2>6
  <1>15. CASE Prepare(r)
    BY <1>15 DEF Prepare, Goto, shared, local, history, StatusType, Candidate,
       Journey
  <1>16. CASE PreludeFails(r)
    BY <1>16 DEF PreludeFails, Goto, Blame, Fail, shared, local, history,
       StatusType, Candidate, Journey
  <1>17. CASE Deliver(r)
    <2>1. /\ StoreUpdate(r, "streaming") /\ pc' = [pc EXCEPT ![r] = "sending"]
          /\ UNCHANGED <<req, local, primaryFailed>>
      BY <1>17 DEF Deliver, Goto, history
    <2>2. pc[r] \notin Unsent \cup {"done", "closing"}
      BY <1>17 DEF Deliver
    <2>3. failure[r] = NoFailure
      BY <1>17 DEF Deliver, Outcome
    <2>4. NoRoute.state # Candidate(r)
      BY DEF NoRoute, Candidate
    <2>5. entries' \in [Sessions -> Entries \cup {NoEntry}]
      BY <2>1, UpdateEntries
    <2>6. ASSUME NEW s \in Sessions, entries'[s] # NoEntry
          PROVE  Recorded(s)'
      <3>1. entries[s] # NoEntry
        BY <2>1, <2>6, UpdateEntries
      <3>0. PICK q \in Requests : q = entries[s].request
        BY <3>1
      <3>2. /\ pc[q] \notin Unsent
            /\ req[q].session = s /\ req[q].routed
            /\ entries[s].route.reason = "retry" => primaryFailed[q]
            /\ pc[q] # "done" => /\ entries[s].route = selected[q]
                                /\ entries[s].route.state = Candidate(q)
        BY <3>0, <3>1
      <3>3. /\ entries'[s].request = q
            /\ entries'[s].route = entries[s].route
            /\ entries'[s].response =
                 IF s = req[r].session /\ selected[r] # NoRoute /\ q = r
                 THEN "streaming" ELSE entries[s].response
        BY <2>1, <3>0, <3>1, UpdateEntries
      <3>4. Candidate(q)' = Candidate(q)
        BY <2>1 DEF Candidate, local
      <3>5. CASE q = r
        <4>1. entries'[s].response = "streaming"
          BY <2>2, <2>4, <3>2, <3>3, <3>5
        <4>. QED BY <2>1, <2>2, <2>3, <3>2, <3>3, <3>4, <3>5, <4>1 DEF local
      <3>6. CASE q # r
        <4>1. pc'[q] = pc[q] /\ entries'[s].response = entries[s].response
          BY <2>1, <3>2, <3>3, <3>6
        <4>. QED BY <2>1, <3>0, <3>1, <3>2, <3>3, <3>4, <4>1 DEF local
      <3>. QED BY <3>5, <3>6
    <2>7. ASSUME NEW s \in Sessions PROVE Recorded(s)'
      BY <2>6
    <2>. QED BY <2>5, <2>7
  <1>18. CASE SendHead(r)
    BY <1>18 DEF SendHead, Goto, shared, local, history, StatusType, Candidate,
       Journey
  <1>19. CASE StreamBreaks(r)
    BY <1>19 DEF StreamBreaks, Goto, Blame, shared, local, history, StatusType,
       Candidate, Journey
  <1>20. CASE ClientLeaves(r)
    BY <1>20 DEF ClientLeaves, Goto, Fail, shared, local, history, StatusType,
       Candidate, Journey
  <1>21. CASE EndStream(r)
    <2>1. /\ pc[r] = "sending" /\ pc' = [pc EXCEPT ![r] = pc'[r]]
          /\ pc'[r] \in {"closing", "clearing", "completing"}
          /\ pc'[r] = "closing" => req[r].catalogue
          /\ UNCHANGED <<entries, req, usedPrimary, selected, primaryFailed, failure>>
      BY <1>21 DEF EndStream, Goto, shared, local, history
    <2>2. req[r].routed => ~req[r].catalogue
      BY RoutedAsks
    <2>3. \A q \in Requests : Candidate(q)' = Candidate(q)
      BY <2>1 DEF Candidate
    <2>. QED BY <2>1, <2>2, <2>3 DEF StatusType
  <1>22. CASE Clear(r)
    BY <1>22 DEF Clear, Goto, shared, local, history, StatusType, Candidate, Journey
  <1>23. CASE Complete(r)
    <2>1. /\ StoreUpdate(r, "complete") /\ pc' = [pc EXCEPT ![r] = "closing"]
          /\ UNCHANGED <<req, local, primaryFailed>>
      BY <1>23 DEF Complete, Goto, history
    <2>2. pc[r] \notin Unsent \cup {"done", "closing"}
      BY <1>23 DEF Complete
    <2>3. failure[r] = NoFailure
      BY <1>23 DEF Complete, Outcome
    <2>4. NoRoute.state # Candidate(r)
      BY DEF NoRoute, Candidate
    <2>5. entries' \in [Sessions -> Entries \cup {NoEntry}]
      BY <2>1, UpdateEntries
    <2>6. ASSUME NEW s \in Sessions, entries'[s] # NoEntry
          PROVE  Recorded(s)'
      <3>1. entries[s] # NoEntry
        BY <2>1, <2>6, UpdateEntries
      <3>0. PICK q \in Requests : q = entries[s].request
        BY <3>1
      <3>2. /\ pc[q] \notin Unsent
            /\ req[q].session = s /\ req[q].routed
            /\ entries[s].route.reason = "retry" => primaryFailed[q]
            /\ pc[q] # "done" => /\ entries[s].route = selected[q]
                                /\ entries[s].route.state = Candidate(q)
        BY <3>0, <3>1
      <3>3. /\ entries'[s].request = q
            /\ entries'[s].route = entries[s].route
            /\ entries'[s].response =
                 IF s = req[r].session /\ selected[r] # NoRoute /\ q = r
                 THEN "complete" ELSE entries[s].response
        BY <2>1, <3>0, <3>1, UpdateEntries
      <3>4. Candidate(q)' = Candidate(q)
        BY <2>1 DEF Candidate, local
      <3>5. CASE q = r
        <4>1. entries'[s].response = "complete"
          BY <2>2, <2>4, <3>2, <3>3, <3>5
        <4>. QED BY <2>1, <2>2, <2>3, <3>2, <3>3, <3>4, <3>5, <4>1 DEF local
      <3>6. CASE q # r
        <4>1. pc'[q] = pc[q] /\ entries'[s].response = entries[s].response
          BY <2>1, <3>2, <3>3, <3>6
        <4>. QED BY <2>1, <3>0, <3>1, <3>2, <3>3, <3>4, <4>1 DEF local
      <3>. QED BY <3>5, <3>6
    <2>7. ASSUME NEW s \in Sessions PROVE Recorded(s)'
      BY <2>6
    <2>. QED BY <2>5, <2>7
  <1>24. CASE Report(r)
    <2>1. /\ StoreUpdate(r, "failed") /\ pc' = [pc EXCEPT ![r] = "closing"]
          /\ UNCHANGED <<req, local, primaryFailed>>
      BY <1>24 DEF Report, Goto, history
    <2>2. pc[r] \notin Unsent \cup {"done", "closing"}
      BY <1>24 DEF Report
    <2>3. failure[r] # NoFailure
      BY <1>24 DEF Report, Outcome
    <2>4. NoRoute.state # Candidate(r)
      BY DEF NoRoute, Candidate
    <2>5. entries' \in [Sessions -> Entries \cup {NoEntry}]
      BY <2>1, UpdateEntries
    <2>6. ASSUME NEW s \in Sessions, entries'[s] # NoEntry
          PROVE  Recorded(s)'
      <3>1. entries[s] # NoEntry
        BY <2>1, <2>6, UpdateEntries
      <3>0. PICK q \in Requests : q = entries[s].request
        BY <3>1
      <3>2. /\ pc[q] \notin Unsent
            /\ req[q].session = s /\ req[q].routed
            /\ entries[s].route.reason = "retry" => primaryFailed[q]
            /\ pc[q] # "done" => /\ entries[s].route = selected[q]
                                /\ entries[s].route.state = Candidate(q)
        BY <3>0, <3>1
      <3>3. /\ entries'[s].request = q
            /\ entries'[s].route = entries[s].route
            /\ entries'[s].response =
                 IF s = req[r].session /\ selected[r] # NoRoute /\ q = r
                 THEN "failed" ELSE entries[s].response
        BY <2>1, <3>0, <3>1, UpdateEntries
      <3>4. Candidate(q)' = Candidate(q)
        BY <2>1 DEF Candidate, local
      <3>5. CASE q = r
        <4>1. entries'[s].response = "failed"
          BY <2>2, <2>4, <3>2, <3>3, <3>5
        <4>. QED BY <2>1, <2>2, <2>3, <3>2, <3>3, <3>4, <3>5, <4>1 DEF local
      <3>6. CASE q # r
        <4>1. pc'[q] = pc[q] /\ entries'[s].response = entries[s].response
          BY <2>1, <3>2, <3>3, <3>6
        <4>. QED BY <2>1, <3>0, <3>1, <3>2, <3>3, <3>4, <4>1 DEF local
      <3>. QED BY <3>5, <3>6
    <2>7. ASSUME NEW s \in Sessions PROVE Recorded(s)'
      BY <2>6
    <2>. QED BY <2>5, <2>7
  <1>. QED
    BY <1>1, <1>2, <1>3, <1>4, <1>5, <1>6, <1>7, <1>8, <1>9, <1>10, <1>11,
       <1>12, <1>13, <1>14, <1>15, <1>16, <1>17, <1>18, <1>19, <1>20, <1>21,
       <1>22, <1>23, <1>24 DEF Listen, Route, Respond

-----------------------------------------------------------------------------
(* The invariant and what follows from it. *)

IInv ==
    /\ ProxyType /\ StatusType
    /\ \A r \in Requests : Quiet(r) /\ Journey(r) /\ Outcome(r)
    /\ \A s \in Sessions : Recorded(s)
    /\ CooldownJustified
    /\ SlotsAccounted

LEMMA InitInvariant == ASSUME ProxyAssumption, Init PROVE IInv
  <1>1. ProxyType /\ StatusType
    BY DEF Init, ProxyType, StatusType, ProxyAssumption, Routes, NoRoute, NoAsk,
       Asks
  <1>2. \A r \in Requests : Quiet(r) /\ Journey(r) /\ Outcome(r)
    BY ItinerariesDiffer
       DEF Init, Quiet, Journey, Outcome, Unsent, Answered
  <1>3. /\ \A s \in Sessions : Recorded(s)
        /\ CooldownJustified
    BY DEF Init, Recorded, CooldownJustified
  <1>4. SlotsAccounted
    <2>1. Holders = {}
      BY DEF Init, Holders, HoldsSlot
    <2>2. Cardinality(Holders) = 0
      BY <2>1, FS_EmptySet
    <2>. QED BY <2>2 DEF Init, SlotsAccounted, Holders, ProxyAssumption
  <1>. QED BY <1>1, <1>2, <1>3, <1>4 DEF IInv

LEMMA StepInvariant == ASSUME ProxyAssumption, IInv, [Next]_vars PROVE IInv'
  <1>1. ASSUME NEW r \in Requests, Listen(r) \/ Route(r) \/ Respond(r)
        PROVE  IInv'
    <2>1. ProxyType'
      BY <1>1, TypeStep DEF IInv
    <2>2. \A q \in Requests : Quiet(q)'
      BY <1>1, QuietStep DEF IInv
    <2>3. \A q \in Requests : Journey(q)'
      BY <1>1, <2>1, JourneyStep DEF IInv
    <2>4. /\ failure' \in [Requests -> Failures \cup {NoFailure}]
          /\ \A q \in Requests : Outcome(q)'
      BY <1>1, OutcomeStep DEF IInv
    <2>5. /\ entries' \in [Sessions -> Entries \cup {NoEntry}]
          /\ \A s \in Sessions : Recorded(s)'
      BY <1>1, RecordedStep DEF IInv
    <2>6. CooldownJustified' /\ SlotsAccounted'
      BY <1>1, CooldownStep, SlotsStep DEF IInv
    <2>. QED BY <2>1, <2>2, <2>3, <2>4, <2>5, <2>6 DEF IInv, StatusType
  <1>2. ASSUME NEW m \in Models, Expire(m) PROVE IInv'
    <2>1. /\ cooling' \subseteq cooling
          /\ UNCHANGED <<slots, entries, pc, req, local, history>>
      BY <1>2 DEF Expire
    <2>. QED
      BY <2>1 DEF IInv, ProxyType, StatusType, Quiet, Journey, Outcome, Recorded,
                  Candidate, MayFallBack, CooldownJustified, SlotsAccounted,
                  local, history
  <1>3. CASE UNCHANGED vars
    BY <1>3 DEF IInv, ProxyType, StatusType, Quiet, Journey, Outcome, Recorded,
                Candidate, MayFallBack, CooldownJustified, SlotsAccounted,
                vars, shared, local, history
  <1>. QED BY <1>1, <1>2, <1>3 DEF Next

THEOREM Invariance == Spec => []IInv
  <1>1. ProxyAssumption
    BY ProxyAssumption
  <1>. QED
    BY <1>1, InitInvariant, StepInvariant, PTL DEF Spec

\* No slot is lost or returned twice, whatever fails.
THEOREM SlotsNeverLeak == Spec => []SlotsAccounted
  <1>1. IInv => SlotsAccounted
    BY DEF IInv
  <1>. QED BY <1>1, Invariance, PTL

\* Clients, fallbacks and unrouted requests start no cooldown.
THEOREM CooldownHasCause == Spec => []CooldownJustified
  <1>1. IInv => CooldownJustified
    BY DEF IInv
  <1>. QED BY <1>1, Invariance, PTL

\* At most one fallback, after the primary has failed or was cooling down.
THEOREM AtMostOneFallback == Spec => []OneFallback
  <1>1. ASSUME IInv, NEW r \in Requests
        PROVE  LET is(route) == {i \in 1 .. Len(sent[r]) : sent[r][i] = route} IN
                 /\ \A i \in is("fallback"), j \in is("primary") : j < i
                 /\ is("fallback") # {} =>
                      \/ primaryFailed[r]
                      \/ /\ is("primary") = {}
                         /\ pc[r] # "done" => selected[r].reason = "cooldown"
                 /\ Len(sent[r]) <= 2
                 /\ \A i, j \in 1 .. Len(sent[r]) : sent[r][i] = sent[r][j] => i = j
    <2>1. /\ sent[r] \in {<<>>, <<"catalogue">>, <<"primary">>, <<"fallback">>,
                          <<"primary", "fallback">>}
          /\ sent[r] = <<"fallback">> /\ pc[r] # "done"
               => selected[r].reason = "cooldown"
          /\ sent[r] = <<"primary", "fallback">> => primaryFailed[r]
      BY <1>1 DEF IInv, Journey
    <2>2. CASE sent[r] = <<"primary", "fallback">>
      <3>1. Len(sent[r]) = 2 /\ sent[r][1] = "primary" /\ sent[r][2] = "fallback"
        BY <2>2
      <3>. QED BY <2>1, <2>2, <3>1
    <2>3. CASE sent[r] = <<"fallback">>
      <3>1. Len(sent[r]) = 1 /\ sent[r][1] = "fallback"
        BY <2>3
      <3>. QED BY <2>1, <2>3, <3>1
    <2>4. CASE sent[r] \in {<<"catalogue">>, <<"primary">>}
      <3>1. Len(sent[r]) = 1 /\ sent[r][1] \in {"primary", "catalogue"}
        BY <2>4
      <3>. QED BY <3>1
    <2>5. CASE sent[r] = <<>>
      <3>1. Len(sent[r]) = 0
        BY <2>5
      <3>. QED BY <3>1
    <2>. QED BY <2>1, <2>2, <2>3, <2>4, <2>5
  <1>2. IInv => OneFallback
    BY <1>1 DEF OneFallback
  <1>. QED BY <1>2, Invariance, PTL

\* Output is never followed by another upstream request.
THEOREM OutputNeverReplayed == Spec => NoReplay
  <1>1. ASSUME IInv, [Next]_vars
        PROVE  [\A r \in Requests : started[r] => sent'[r] = sent[r]]_vars
    <2>1. ASSUME NEW q \in Requests, Listen(q) \/ Route(q) \/ Respond(q),
                 NEW r \in Requests, started[r]
          PROVE  sent'[r] = sent[r]
      <3>1. CASE Ask(q) \/ AskFails(q)
        <4>1. pc[q] = "asking" /\ sent' = [sent EXCEPT ![q] = sent'[q]]
          BY <1>1, <3>1 DEF Ask, AskFails, IInv, ProxyType
        <4>2. q # r
          BY <1>1, <2>1, <4>1 DEF IInv, Quiet
        <4>. QED BY <1>1, <4>1, <4>2 DEF IInv, ProxyType
      <3>2. CASE ~Ask(q) /\ ~AskFails(q)
        <4>1. sent' = sent
          BY <2>1, <3>2 DEF Listen, Route, Respond, shared, local, history,
             Accept, Refuse, Start, StartFails, Close, Read, TooLarge,
             ReadFails, Choose, Select, Trip, FallBack, Prepare, PreludeFails,
             Deliver, SendHead, StreamBreaks, ClientLeaves, EndStream, Clear,
             Complete, Report
        <4>. QED BY <4>1
      <3>. QED BY <3>1, <3>2
    <2>2. ASSUME NEW m \in Models, Expire(m) PROVE sent' = sent
      BY <2>2 DEF Expire, history
    <2>. QED BY <1>1, <2>1, <2>2 DEF Next
  <1>. QED BY <1>1, Invariance, PTL DEF Spec, NoReplay

\* A session's entry tells the truth about its request.
THEOREM StatusNeverLies == Spec => []StatusTruthful
  <1>1. ASSUME IInv, NEW r \in Requests, ~req[r].catalogue, pc[r] \in Answered
        PROVE  sent[r] # <<>> /\ sent[r][Len(sent[r])] = Candidate(r)
    <2>1. CASE sent[r] = <<"primary">> /\ usedPrimary[r]
      BY <1>1, <2>1 DEF Candidate
    <2>2. CASE sent[r] = <<"fallback">> /\ ~usedPrimary[r]
      BY <1>1, <2>2 DEF Candidate
    <2>3. CASE sent[r] = <<"primary", "fallback">> /\ ~usedPrimary[r]
      BY <1>1, <2>3 DEF Candidate
    <2>. QED BY <1>1, <2>1, <2>2, <2>3 DEF IInv, Journey
  <1>2. ASSUME ProxyAssumption, IInv, NEW s \in Sessions, entries[s] # NoEntry
        PROVE  LET r == entries[s].request
                   route == entries[s].route
               IN
                 /\ req[r].session = s
                 /\ route.reason = "retry" => primaryFailed[r]
                 /\ pc[r] # "done" => route = selected[r]
                 /\ pc[r] \in {"preparing", "delivering", "sending"}
                      => sent[r] # <<>> /\ sent[r][Len(sent[r])] = route.state
                 /\ pc[r] = "closing"
                      => entries[s].response =
                           IF failure[r] = NoFailure THEN "complete" ELSE "failed"
                 /\ pc[r] = "done" => entries[s].response \in {"complete", "failed"}
    <2>1. PICK r \in Requests : r = entries[s].request
      BY <1>2 DEF IInv, Recorded
    <2>2. /\ req[r].session = s /\ req[r].routed
          /\ entries[s].route.reason = "retry" => primaryFailed[r]
          /\ pc[r] # "done" => /\ entries[s].route = selected[r]
                              /\ entries[s].route.state = Candidate(r)
          /\ pc[r] = "closing"
               => entries[s].response =
                    IF failure[r] = NoFailure THEN "complete" ELSE "failed"
          /\ pc[r] = "done" => entries[s].response \in {"complete", "failed"}
      BY <1>2, <2>1 DEF IInv, Recorded
    <2>3. ~req[r].catalogue
      BY <1>2, <2>2, RoutedAsks DEF IInv, ProxyType
    <2>4. pc[r] \in Answered =>
            sent[r] # <<>> /\ sent[r][Len(sent[r])] = entries[s].route.state
      BY <1>1, <1>2, <2>2, <2>3 DEF Answered
    <2>. QED BY <2>1, <2>2, <2>4 DEF Answered
  <1>3. ProxyAssumption /\ IInv => StatusTruthful
    BY <1>2 DEF StatusTruthful
  <1>. QED BY <1>3, ProxyAssumption, Invariance, PTL

-----------------------------------------------------------------------------
(* Which request of a session the status line shows. *)

LatestInv ==
    /\ latest \in [Sessions -> Requests \cup {"none"}]
    /\ StaleOnlyByRetry

\* A selection shows its own request; the others either stay or are evicted.
LEMMA SelectingStep ==
    ASSUME ProxyAssumption, IInv, LatestInv, NEW r \in Requests,
           Select(r) \/ FallBack(r)
    PROVE  LatestInv'
  <1>1. req[r].session \in Sessions
    BY RoutedAsks
    DEF Select, FallBack, IInv, Journey, ProxyType, MayFallBack
  <1>2. PICK route \in Routes :
          /\ StoreSelect(r, route)
          /\ \/ latest' = [latest EXCEPT ![req[r].session] = r]
             \/ latest' = latest /\ route.reason = "retry"
    BY DEF Select, FallBack, Routes, history
  <1>3. latest' \in [Sessions -> Requests \cup {"none"}]
    BY <1>1, <1>2 DEF LatestInv
  <1>4. ASSUME NEW s \in Sessions, entries'[s] # NoEntry,
               entries'[s].request # latest'[s]
        PROVE  entries'[s].route.reason = "retry"
    <2>1. CASE s = req[r].session
      <3>1. entries'[s] = [request |-> r, route |-> route,
                           response |-> "pending"]
        BY <1>2, <1>4, <2>1, SelectEntries DEF IInv
      <3>. QED BY <1>1, <1>2, <1>4, <2>1, <3>1 DEF LatestInv
    <2>2. CASE s # req[r].session
      <3>1. entries'[s] = entries[s] /\ latest'[s] = latest[s]
        BY <1>2, <1>4, <2>2, SelectEntries DEF IInv, LatestInv
      <3>. QED BY <1>4, <3>1 DEF LatestInv, StaleOnlyByRetry
    <2>. QED BY <2>1, <2>2
  <1>. QED BY <1>3, <1>4 DEF LatestInv, StaleOnlyByRetry

\* Progress, late or not, is noted on the entry of the request alone.
LEMMA NotingStep ==
    ASSUME IInv, LatestInv, NEW r \in Requests,
           Deliver(r) \/ Complete(r) \/ Report(r)
    PROVE  LatestInv'
  <1>1. PICK response \in {"streaming", "complete", "failed"} :
          StoreUpdate(r, response)
    BY DEF Deliver, Complete, Report
  <1>2. latest' = latest
    BY DEF Deliver, Complete, Report, history
  <1>3. ASSUME NEW s \in Sessions, entries'[s] # NoEntry
        PROVE  /\ entries[s] # NoEntry
               /\ entries'[s].request = entries[s].request
               /\ entries'[s].route = entries[s].route
    BY <1>1, <1>3, UpdateEntries DEF IInv
  <1>. QED BY <1>2, <1>3 DEF LatestInv, StaleOnlyByRetry

\* The other steps neither select nor note anything.
LEMMA UnshownStep ==
    ASSUME LatestInv, UNCHANGED <<entries, latest>>
    PROVE  LatestInv'
  BY DEF LatestInv, StaleOnlyByRetry

LEMMA StepLatest ==
    ASSUME ProxyAssumption, IInv, LatestInv, [Next]_vars PROVE LatestInv'
  <1>1. ASSUME NEW r \in Requests, Listen(r) PROVE LatestInv'
    BY <1>1, UnshownStep
    DEF Listen, Accept, Refuse, Start, StartFails, Close, shared, history
  <1>2. ASSUME NEW r \in Requests, Route(r) PROVE LatestInv'
    <2>1. CASE Select(r) \/ FallBack(r)
      BY <2>1, SelectingStep
    <2>2. CASE \/ Read(r) \/ TooLarge(r) \/ ReadFails(r) \/ Choose(r)
               \/ Ask(r) \/ AskFails(r) \/ Trip(r)
      BY <2>2, UnshownStep
      DEF Read, TooLarge, ReadFails, Choose, Ask, AskFails, Trip, shared,
          history
    <2>. QED BY <1>2, <2>1, <2>2 DEF Route
  <1>3. ASSUME NEW r \in Requests, Respond(r) PROVE LatestInv'
    <2>1. CASE Deliver(r) \/ Complete(r) \/ Report(r)
      BY <2>1, NotingStep
    <2>2. CASE \/ Prepare(r) \/ PreludeFails(r) \/ SendHead(r)
               \/ StreamBreaks(r) \/ ClientLeaves(r) \/ EndStream(r)
               \/ Clear(r)
      BY <2>2, UnshownStep
      DEF Prepare, PreludeFails, SendHead, StreamBreaks, ClientLeaves,
          EndStream, Clear, shared, history
    <2>. QED BY <1>3, <2>1, <2>2 DEF Respond
  <1>4. ASSUME NEW m \in Models, Expire(m) PROVE LatestInv'
    BY <1>4, UnshownStep DEF Expire, history
  <1>5. CASE UNCHANGED vars
    BY <1>5, UnshownStep DEF vars, shared, history
  <1>. QED BY <1>1, <1>2, <1>3, <1>4, <1>5 DEF Next

LEMMA LatestInvariance == Spec => []LatestInv
  <1>1. ProxyAssumption
    BY ProxyAssumption
  <1>2. Init => LatestInv
    BY DEF Init, LatestInv, StaleOnlyByRetry
  <1>3. IInv /\ LatestInv /\ [Next]_vars => LatestInv'
    BY <1>1, StepLatest
  <1>. QED BY <1>2, <1>3, Invariance, PTL DEF Spec

\* However late older requests answer or fail, the status line shows one of
\* them only when it has fallen back.
THEOREM OlderOnlyByRetry == Spec => []StaleOnlyByRetry
  <1>1. LatestInv => StaleOnlyByRetry
    BY DEF LatestInv
  <1>. QED BY <1>1, LatestInvariance, PTL


-----------------------------------------------------------------------------
(* The order of the status store.                                          *)

\* The recency list names no session twice and only sessions with an entry,
\* and there are never more of them than the store may hold.
Distinct(q) == \A i, j \in 1 .. Len(q) : q[i] = q[j] => i = j

StoreInv ==
    /\ recency \in Seq({s \in Sessions : entries[s] # NoEntry})
    /\ Len(recency) <= MaxEntries
    /\ Distinct(recency)

\* A list without the element at one place.
LEMMA Spliced ==
    ASSUME NEW q, Len(q) \in Nat, Distinct(q), NEW i \in 1 .. Len(q),
           NEW others, Len(others) = Len(q) - 1,
           \A k \in 1 .. Len(others) :
             others[k] = q[IF k < i THEN k ELSE k + 1]
    PROVE  /\ \A k \in 1 .. Len(others) : others[k] # q[i]
           /\ Distinct(others)
  <1>. DEFINE at(k) == IF k < i THEN k ELSE k + 1
  <1>1. ASSUME NEW k \in 1 .. Len(others)
        PROVE  at(k) \in 1 .. Len(q) /\ at(k) # i /\ others[k] = q[at(k)]
    OBVIOUS
  <1>2. \A k, l \in 1 .. Len(others) : at(k) = at(l) => k = l
    OBVIOUS
  <1>. HIDE DEF at
  <1>. QED BY <1>1, <1>2 DEF Distinct

LEMMA WithoutOne ==
    ASSUME NEW S, NEW q \in Seq(S), Distinct(q), NEW i \in 1 .. Len(q)
    PROVE  LET others == SubSeq(q, 1, i - 1) \o SubSeq(q, i + 1, Len(q)) IN
             /\ others \in Seq(S) /\ Len(others) = Len(q) - 1
             /\ \A k \in 1 .. Len(others) : others[k] # q[i]
             /\ Distinct(others)
  <1>. DEFINE a == SubSeq(q, 1, i - 1)
              b == SubSeq(q, i + 1, Len(q))
              others == a \o b
  <1>1. /\ a \in Seq(S) /\ Len(a) = i - 1
        /\ \A k \in 1 .. i - 1 : a[k] = q[k]
    BY SubSeqProperties
  <1>2. /\ b \in Seq(S) /\ Len(b) = Len(q) - i
        /\ \A k \in 1 .. Len(q) - i : b[k] = q[i + k]
    BY SubSeqProperties
  <1>3. Len(q) \in Nat /\ i \in Nat
    OBVIOUS
  <1>. HIDE DEF a, b
  <1>4. /\ others \in Seq(S) /\ Len(others) = Len(a) + Len(b)
        /\ \A k \in 1 .. Len(a) + Len(b) :
             others[k] = IF k <= Len(a) THEN a[k] ELSE b[k - Len(a)]
    BY <1>1, <1>2, ConcatProperties, Zenon
  <1>. HIDE DEF others
  <1>5. Len(others) = Len(q) - 1
    BY <1>1, <1>2, <1>3, <1>4
  <1>6. ASSUME NEW k \in 1 .. Len(others)
        PROVE  others[k] = q[IF k < i THEN k ELSE k + 1]
    <2>1. k \in 1 .. Len(a) + Len(b) /\ k \in Nat
      BY <1>1, <1>2, <1>3, <1>4
    <2>2. CASE k < i
      <3>1. k <= Len(a) /\ k \in 1 .. i - 1
        BY <1>1, <1>3, <2>1, <2>2
      <3>2. others[k] = a[k]
        BY <1>4, <2>1, <3>1
      <3>. QED BY <1>1, <2>2, <3>1, <3>2
    <2>3. CASE ~(k < i)
      <3>1. ~(k <= Len(a)) /\ k - Len(a) \in 1 .. Len(q) - i
            /\ i + (k - Len(a)) = k + 1
        BY <1>1, <1>2, <1>3, <2>1, <2>3
      <3>2. others[k] = b[k - Len(a)]
        BY <1>4, <2>1, <3>1
      <3>3. b[k - Len(a)] = q[k + 1]
        BY <1>2, <3>1
      <3>. QED BY <2>3, <3>2, <3>3
    <2>. QED BY <2>2, <2>3
  <1>7. /\ \A k \in 1 .. Len(others) : others[k] # q[i]
        /\ Distinct(others)
    BY <1>3, <1>5, <1>6, Spliced
  <1>. QED BY <1>4, <1>5, <1>7 DEF others, a, b

LEMMA MovedToEndOnce ==
    ASSUME NEW S, recency \in Seq(S), Distinct(recency), NEW s
    PROVE  LET order == MovedToEnd(s) IN
             /\ order \in Seq(S \cup {s}) /\ Distinct(order)
             /\ Len(order) \in Nat \ {0} /\ order[Len(order)] = s
             /\ Len(order) <= Len(recency) + 1
  <1>. DEFINE at == {i \in 1 .. Len(recency) : recency[i] = s}
  <1>1. PICK others \in Seq(S) :
          /\ MovedToEnd(s) = Append(others, s)
          /\ Distinct(others) /\ Len(others) <= Len(recency)
          /\ \A k \in 1 .. Len(others) : others[k] # s
    <2>1. CASE at = {}
      <3>1. MovedToEnd(s) = Append(recency, s)
        BY <2>1 DEF MovedToEnd
      <3>. QED BY <2>1, <3>1
    <2>2. CASE at # {}
      <3>. DEFINE i == CHOOSE i \in at : TRUE
                  rest == SubSeq(recency, 1, i - 1)
                            \o SubSeq(recency, i + 1, Len(recency))
      <3>1. i \in 1 .. Len(recency) /\ recency[i] = s
        BY <2>2
      <3>2. MovedToEnd(s) = Append(rest, s)
        BY <2>2 DEF MovedToEnd
      <3>. HIDE DEF i, at
      <3>3. /\ rest \in Seq(S) /\ Len(rest) = Len(recency) - 1
            /\ \A k \in 1 .. Len(rest) : rest[k] # recency[i]
            /\ Distinct(rest)
        BY <3>1, WithoutOne, Zenon
      <3>. HIDE DEF rest
      <3>. QED BY <3>1, <3>2, <3>3
    <2>. QED BY <2>1, <2>2
  <1>. DEFINE order == Append(others, s)
  <1>2. /\ others \in Seq(S \cup {s}) /\ Len(others) \in Nat
        /\ Len(recency) \in Nat
    OBVIOUS
  <1>3. /\ order \in Seq(S \cup {s}) /\ Len(order) = Len(others) + 1
        /\ \A k \in 1 .. Len(others) : order[k] = others[k]
        /\ order[Len(others) + 1] = s
    BY <1>2, AppendProperties
  <1>. HIDE DEF order
  <1>4. Distinct(order)
    BY <1>1, <1>2, <1>3 DEF Distinct
  <1>. QED BY <1>1, <1>2, <1>3, <1>4 DEF order

\* A selection puts its session last and evicts the oldest one, never itself.
LEMMA SelectStore ==
    ASSUME ProxyAssumption, StoreInv, NEW r \in Requests, NEW route \in Routes,
           req[r].session \in Sessions, StoreSelect(r, route)
    PROVE  StoreInv'
  <1>. DEFINE s == req[r].session
              order == MovedToEnd(s)
              listed == {t \in Sessions : entries[t] # NoEntry}
              chosen == [request |-> r, route |-> route, response |-> "pending"]
  <1>1. /\ order \in Seq(listed \cup {s}) /\ Distinct(order)
        /\ Len(order) \in Nat \ {0} /\ order[Len(order)] = s
        /\ Len(order) <= Len(recency) + 1
    BY MovedToEndOnce DEF StoreInv
  <1>2. chosen # NoEntry
    BY DEF NoEntry
  <1>3. Len(recency) \in Nat /\ MaxEntries \in Nat \ {0}
        /\ Len(recency) <= MaxEntries
    BY DEF StoreInv, ProxyAssumption
  <1>4. CASE Len(order) <= MaxEntries
    <2>1. /\ recency' = order
          /\ entries' = [t \in Sessions |->
                           IF t = s THEN chosen ELSE entries[t]]
      BY <1>1, <1>3, <1>4 DEF StoreSelect
    <2>2. {t \in Sessions : entries'[t] # NoEntry} = listed \cup {s}
      BY <1>2, <2>1
    <2>. QED BY <1>1, <1>4, <2>1, <2>2 DEF StoreInv
  <1>5. CASE ~(Len(order) <= MaxEntries)
    <2>. DEFINE oldest == Head(order)
    <2>1. Len(order) = MaxEntries + 1 /\ Len(order) \in Nat /\ Len(order) >= 2
      BY <1>1, <1>3, <1>5
    <2>2. /\ oldest = order[1] /\ Tail(order) \in Seq(listed \cup {s})
          /\ Len(Tail(order)) = Len(order) - 1
          /\ \A k \in 1 .. Len(order) - 1 : Tail(order)[k] = order[k + 1]
      BY <1>1, <2>1, HeadTailProperties, EmptySeq
    <2>3. /\ recency' = Tail(order)
          /\ entries' = [t \in Sessions |->
                           IF t \in {oldest} THEN NoEntry
                           ELSE IF t = s THEN chosen ELSE entries[t]]
      BY <1>1, <1>3, <1>5 DEF StoreSelect
    <2>4. oldest # s
      BY <1>1, <2>1, <2>2 DEF Distinct
    <2>. HIDE DEF order, oldest, chosen
    <2>5. {t \in Sessions : entries'[t] # NoEntry} = (listed \cup {s}) \ {oldest}
      BY <1>2, <2>3, <2>4
    <2>6. \A k \in 1 .. Len(order) - 1 :
            Tail(order)[k] \in (listed \cup {s}) \ {oldest}
      BY <1>1, <2>1, <2>2 DEF Distinct
    <2>7. Tail(order) \in Seq((listed \cup {s}) \ {oldest})
      <3>1. Len(Tail(order)) = Len(order) - 1 /\ Tail(order) \in Seq(listed \cup {s})
        BY <2>2
      <3>2. SubSeq(Tail(order), 1, Len(Tail(order))) = Tail(order)
        BY <3>1, SubSeqFull
      <3>3. SubSeq(Tail(order), 1, Len(Tail(order)))
              \in Seq((listed \cup {s}) \ {oldest})
        BY <2>1, <2>6, <3>1, SubSeqProperties
      <3>. QED BY <3>2, <3>3
    <2>8. Distinct(Tail(order))
      BY <1>1, <2>1, <2>2 DEF Distinct
    <2>. QED BY <2>1, <2>2, <2>3, <2>5, <2>7, <2>8 DEF StoreInv
  <1>. QED BY <1>4, <1>5

\* An update makes and removes no entry.
LEMMA UpdateStore ==
    ASSUME StatusType, StoreInv, NEW r \in Requests,
           NEW response \in {"streaming", "complete", "failed"},
           StoreUpdate(r, response)
    PROVE  StoreInv'
  <1>1. ASSUME NEW e \in Entries PROVE [e EXCEPT !.response = response] # NoEntry
    BY DEF Entries, NoEntry
  <1>2. ASSUME NEW s \in Sessions, entries[s] # NoEntry
        PROVE  entries'[s] # NoEntry
    BY <1>1, <1>2 DEF StoreUpdate, StatusType
  <1>3. ASSUME NEW s \in Sessions, entries[s] = NoEntry
        PROVE  entries'[s] = NoEntry
    BY <1>3 DEF StoreUpdate
  <1>4. {s \in Sessions : entries'[s] # NoEntry}
          = {s \in Sessions : entries[s] # NoEntry}
    BY <1>2, <1>3
  <1>. QED BY <1>4 DEF StoreInv, StoreUpdate

LEMMA StoreKept ==
    ASSUME StoreInv, UNCHANGED <<entries, recency>>
    PROVE  StoreInv'
  BY DEF StoreInv

LEMMA StoreStep ==
    ASSUME ProxyAssumption, IInv, StoreInv, [Next]_vars PROVE StoreInv'
  <1>1. ASSUME NEW r \in Requests, Listen(r) PROVE StoreInv'
    BY <1>1, StoreKept
    DEF Listen, Accept, Refuse, Start, StartFails, Close, shared
  <1>2. ASSUME NEW r \in Requests, Route(r) PROVE StoreInv'
    <2>1. CASE Select(r) \/ FallBack(r)
      <3>1. req[r].session \in Sessions
        BY <2>1, RoutedAsks
        DEF Select, FallBack, IInv, Journey, ProxyType, MayFallBack
      <3>2. \E route \in Routes : StoreSelect(r, route)
        BY <2>1 DEF Select, FallBack, Routes
      <3>. QED BY <3>1, <3>2, SelectStore
    <2>2. CASE \/ Read(r) \/ TooLarge(r) \/ ReadFails(r) \/ Choose(r)
               \/ Ask(r) \/ AskFails(r) \/ Trip(r)
      BY <2>2, StoreKept
      DEF Read, TooLarge, ReadFails, Choose, Ask, AskFails, Trip, shared
    <2>. QED BY <1>2, <2>1, <2>2 DEF Route
  <1>3. ASSUME NEW r \in Requests, Respond(r) PROVE StoreInv'
    <2>1. CASE Deliver(r) \/ Complete(r) \/ Report(r)
      BY <2>1, UpdateStore DEF Deliver, Complete, Report, IInv
    <2>2. CASE \/ Prepare(r) \/ PreludeFails(r) \/ SendHead(r)
               \/ StreamBreaks(r) \/ ClientLeaves(r) \/ EndStream(r)
               \/ Clear(r)
      BY <2>2, StoreKept
      DEF Prepare, PreludeFails, SendHead, StreamBreaks, ClientLeaves,
          EndStream, Clear, shared
    <2>. QED BY <1>3, <2>1, <2>2 DEF Respond
  <1>4. ASSUME NEW m \in Models, Expire(m) PROVE StoreInv'
    BY <1>4, StoreKept DEF Expire
  <1>5. CASE UNCHANGED vars
    BY <1>5, StoreKept DEF vars, shared
  <1>. QED BY <1>1, <1>2, <1>3, <1>4, <1>5 DEF Next

\* The rest of TypeOK: what a response in hand says.
ResponseType ==
    /\ status \in [Requests -> {"none", "ok", "error", "retryable"}]
    /\ forwarded \in [Requests -> BOOLEAN]

LEMMA ResponseStep ==
    ASSUME ResponseType, [Next]_vars PROVE ResponseType'
  <1>. USE DEF ResponseType, local
  <1>1. ASSUME NEW r \in Requests, Listen(r) PROVE ResponseType'
    BY <1>1 DEF Listen, Accept, Refuse, Start, StartFails, Close
  <1>2. ASSUME NEW r \in Requests, Route(r) PROVE ResponseType'
    <2>1. CASE Ask(r)
      BY <2>1 DEF Ask
    <2>2. CASE \/ Read(r) \/ TooLarge(r) \/ ReadFails(r) \/ Choose(r)
               \/ Select(r) \/ AskFails(r) \/ Trip(r) \/ FallBack(r)
      BY <2>2
      DEF Read, TooLarge, ReadFails, Choose, Select, AskFails, Trip, FallBack
    <2>. QED BY <1>2, <2>1, <2>2 DEF Route
  <1>3. ASSUME NEW r \in Requests, Respond(r) PROVE ResponseType'
    <2>1. CASE StreamBreaks(r) \/ ClientLeaves(r)
      BY <2>1 DEF StreamBreaks, ClientLeaves
    <2>2. CASE \/ Prepare(r) \/ PreludeFails(r) \/ Deliver(r) \/ SendHead(r)
               \/ EndStream(r) \/ Clear(r) \/ Complete(r) \/ Report(r)
      BY <2>2
      DEF Prepare, PreludeFails, Deliver, SendHead, EndStream, Clear, Complete,
          Report
    <2>. QED BY <1>3, <2>1, <2>2 DEF Respond
  <1>4. ASSUME NEW m \in Models, Expire(m) PROVE ResponseType'
    BY <1>4 DEF Expire
  <1>5. CASE UNCHANGED vars
    BY <1>5 DEF vars
  <1>. QED BY <1>1, <1>2, <1>3, <1>4, <1>5 DEF Next

\* The state of the proxy is well typed; in particular, the status store holds
\* no more entries than it may (RouteStatusStore.select), and its order names
\* just sessions that have one.
THEOREM TypeCorrect == Spec => []TypeOK
  <1>1. ProxyAssumption
    BY ProxyAssumption
  <1>2. Init => StoreInv /\ ResponseType
    BY <1>1 DEF Init, StoreInv, ResponseType, Distinct, ProxyAssumption
  <1>3. IInv /\ StoreInv /\ ResponseType /\ [Next]_vars
          => StoreInv' /\ ResponseType'
    BY <1>1, StoreStep, ResponseStep
  <1>4. IInv /\ LatestInv /\ StoreInv /\ ResponseType => TypeOK
    BY DEF IInv, ProxyType, StatusType, LatestInv, StoreInv, ResponseType, TypeOK
  <1>. QED BY <1>2, <1>3, <1>4, Invariance, LatestInvariance, PTL DEF Spec

=============================================================================
