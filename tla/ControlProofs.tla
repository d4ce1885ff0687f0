--------------------------- MODULE ControlProofs ---------------------------
(* Theorems about control connections and pushes.  About UdpPush: for any    *)
(* number of connections, push threads, destinations, channels and muxes and *)
(* any Faults.  About Wire: for any scripts, parameters, datagrams, seeds,   *)
(* and capacities, along the codec it is built on.  The modules share no     *)
(* variable; lemmas and definitions about a connection follow those about    *)
(* the push.                                                                 *)
EXTENDS UdpPush, Wire, SequenceTheorems, WellFoundedInduction, TLAPS

\* The initial state satisfies the invariant.
LEMMA InitInv == Init => IInv
<1> SUFFICES ASSUME Init PROVE IInv
  OBVIOUS
<1> USE UdpPushAssumption DEF Init
<1>1. NoJob \in Jobs /\ NoJob.kind = "none"
  BY DEF NoJob, Job, Jobs
<1>2. TypeOK
  BY <1>1 DEF TypeOK, Pcs, PushPcs, Threads
<1>3. JobInv
  BY <1>1 DEF JobInv
<1>4. ActiveIsNewest /\ MatchIsNewest
  BY DEF ActiveIsNewest, MatchIsNewest
<1>5. ClaimIsPush
  BY DEF ClaimIsPush, ClaimedPcs
<1> QED
  BY <1>2, <1>3, <1>4, <1>5 DEF IInv

\* Every step preserves the type invariant.
LEMMA TypeStep == TypeOK /\ JobInv /\ [Next]_vars => TypeOK'
<1> SUFFICES ASSUME TypeOK, JobInv, [Next]_vars PROVE TypeOK'
  OBVIOUS
<1> USE UdpPushAssumption
    DEF TypeOK, JobInv, Jobs, Job, NoJob, Pcs, ClaimedPcs, PushPcs, Threads,
        At, PushAt, flagVars, kaVars, selVars, pushVars, ctlVars
<1>1. ASSUME NEW x \in Threads, UdpPushStop(x) PROVE TypeOK'
  BY <1>1 DEF UdpPushStop, AfterStop, Goto, Finish
<1>2. ASSUME NEW x \in Threads, ClearTarget(x) PROVE TypeOK'
  BY <1>2 DEF ClearTarget, Finish
<1>3. ASSUME NEW x \in Threads, BindChannel(x) PROVE TypeOK'
  BY <1>3 DEF BindChannel, Finish
<1>4. ASSUME NEW x \in Threads, ClearChannel(x) PROVE TypeOK'
  BY <1>4 DEF ClearChannel, Finish
<1>5. ASSUME NEW x \in Threads, Snapshot(x) PROVE TypeOK'
  BY <1>5 DEF Snapshot, Finish
<1>6. ASSUME NEW x \in Threads, Lookup(x) PROVE TypeOK'
  BY <1>6 DEF Lookup, Finish
<1>7. ASSUME NEW x \in Threads, StartFails(x) PROVE TypeOK'
  BY <1>7 DEF StartFails, Finish
<1>8. ASSUME NEW x \in Threads, SetTarget(x) PROVE TypeOK'
  BY <1>8 DEF SetTarget, Finish
<1>9. ASSUME NEW p \in Pushes, PushStart(p) PROVE TypeOK'
  BY <1>9 DEF PushStart, PushGoto
<1>10. ASSUME NEW p \in Pushes, PushClaim(p) PROVE TypeOK'
  <2>1. UNCHANGED <<target, active, stop_requested, current, match, fresh, vch,
                    tuned, ctx, pc, job, signal>>
    BY <1>10 DEF PushClaim, PushGoto
  <2>2. claim' \in Pushes \cup {Other, None}
    BY <1>10 DEF PushClaim
  <2>3. ppc' \in [Pushes -> PushPcs]
    <3>1. \E l \in PushPcs : ppc' = [ppc EXCEPT ![p] = l]
      BY <1>10 DEF PushClaim, PushGoto
    <3> QED
      BY <3>1
  <2> HIDE DEF JobInv, Jobs, Job, NoJob, Pcs, ClaimedPcs, PushPcs, Threads
  <2> QED
    BY <2>1, <2>2, <2>3
<1>11. ASSUME NEW p \in Pushes, PushOpen(p) PROVE TypeOK'
  BY <1>11 DEF PushOpen, PushGoto
<1>12. ASSUME NEW p \in Pushes, PushLoop(p) PROVE TypeOK'
  BY <1>12 DEF PushLoop, PushGoto
<1>13. ASSUME NEW p \in Pushes, PushRead(p) PROVE TypeOK'
  BY <1>13 DEF PushRead, PushGoto
<1>14. ASSUME NEW p \in Pushes, PushEof(p) PROVE TypeOK'
  BY <1>14 DEF PushEof, PushGoto
<1>15. ASSUME NEW p \in Pushes, PushReset(p) PROVE TypeOK'
  BY <1>15 DEF PushReset, PushGoto
<1>16. ASSUME NEW p \in Pushes, PushRelease(p) PROVE TypeOK'
  BY <1>16 DEF PushRelease, PushGoto
<1>17. ASSUME NEW p \in Pushes, PushEnd(p) PROVE TypeOK'
  BY <1>17 DEF PushEnd
<1>18. ASSUME NEW x \in Threads, NEW p \in Pushes, StartPush(x, p) PROVE TypeOK'
  BY <1>18 DEF StartPush, Goto
<1>19. ASSUME NEW x \in Conns, ReceiveAny(x) PROVE TypeOK'
  <2>1. PICK k \in {"target", "vchannel", "notarget", "nochannel"},
             d \in Dests \cup {None}, c \in Chans \cup {None} :
          Receive(x, k, d, c)
    BY <1>19 DEF ReceiveAny
  <2>2. Job(k, d, c, None) \in Jobs
    OBVIOUS
  <2>3. job' \in [Threads -> Jobs] /\ pc' \in [Threads -> Pcs]
    <3> HIDE DEF Job, Jobs
    <3> QED
      BY <2>1, <2>2 DEF Receive
  <2> HIDE DEF JobInv, Jobs, Job, NoJob, Pcs, ClaimedPcs, PushPcs, Threads
  <2> QED
    BY <2>1, <2>3 DEF Receive
<1>20. ASSUME NEW d \in Dests, Keepalive(d) PROVE TypeOK'
  BY <1>20 DEF Keepalive
<1>21. ASSUME Sweep PROVE TypeOK'
  BY <1>21 DEF Sweep, Goto
<1>22. ASSUME Silence PROVE TypeOK'
  <2>1. UNCHANGED <<target, active, stop_requested, current, match, vch, tuned,
                    claim, ppc, ctx, pc, job, signal>> /\ fresh' = FALSE
    BY <1>22 DEF Silence
  <2> HIDE DEF JobInv, Jobs, Job, NoJob, Pcs, ClaimedPcs, PushPcs, Threads
  <2> QED
    BY <2>1
<1>23. ASSUME OtherClaim PROVE TypeOK'
  BY <1>23 DEF OtherClaim
<1>24. ASSUME OtherRelease PROVE TypeOK'
  BY <1>24 DEF OtherRelease
<1>25. ASSUME SignalChange PROVE TypeOK'
  BY <1>25 DEF SignalChange
<1>26. CASE UNCHANGED vars
  BY <1>26 DEF vars
<1> HIDE DEF IInv, TypeOK, JobInv, ActiveIsNewest, MatchIsNewest, ClaimIsPush, Jobs
<1> QED
  BY <1>1, <1>2, <1>3, <1>4, <1>5, <1>6, <1>7, <1>8, <1>9, <1>10, <1>11,
     <1>12, <1>13, <1>14, <1>15, <1>16, <1>17, <1>18, <1>19, <1>20, <1>21,
     <1>22, <1>23, <1>24, <1>25, <1>26
     DEF Next, Step, PushStep, Env

\* Every step leaves each connection at a point its SET can reach.
LEMMA JobStep == TypeOK /\ JobInv /\ [Next]_vars => JobInv'
<1> SUFFICES ASSUME TypeOK, JobInv, [Next]_vars PROVE JobInv'
  OBVIOUS
<1> USE UdpPushAssumption
    DEF TypeOK, JobInv, Jobs, Job, NoJob, Threads,
        At, PushAt, flagVars, kaVars, selVars, pushVars, ctlVars
<1>1. ASSUME NEW x \in Threads, UdpPushStop(x) PROVE JobInv'
  BY <1>1 DEF UdpPushStop, AfterStop, Goto, Finish
<1>2. ASSUME NEW x \in Threads, ClearTarget(x) PROVE JobInv'
  BY <1>2 DEF ClearTarget, Finish
<1>3. ASSUME NEW x \in Threads, BindChannel(x) PROVE JobInv'
  BY <1>3 DEF BindChannel, Finish
<1>4. ASSUME NEW x \in Threads, ClearChannel(x) PROVE JobInv'
  BY <1>4 DEF ClearChannel, Finish
<1>5. ASSUME NEW x \in Threads, Snapshot(x) PROVE JobInv'
  BY <1>5 DEF Snapshot, Finish
<1>6. ASSUME NEW x \in Threads, Lookup(x) PROVE JobInv'
  BY <1>6 DEF Lookup, Finish
<1>7. ASSUME NEW x \in Threads, StartFails(x) PROVE JobInv'
  BY <1>7 DEF StartFails, Finish
<1>8. ASSUME NEW x \in Threads, SetTarget(x) PROVE JobInv'
  BY <1>8 DEF SetTarget, Finish
<1>9. ASSUME NEW p \in Pushes, PushStart(p) PROVE JobInv'
  BY <1>9 DEF PushStart, PushGoto
<1>10. ASSUME NEW p \in Pushes, PushClaim(p) PROVE JobInv'
  BY <1>10 DEF PushClaim, PushGoto
<1>11. ASSUME NEW p \in Pushes, PushOpen(p) PROVE JobInv'
  BY <1>11 DEF PushOpen, PushGoto
<1>12. ASSUME NEW p \in Pushes, PushLoop(p) PROVE JobInv'
  BY <1>12 DEF PushLoop, PushGoto
<1>13. ASSUME NEW p \in Pushes, PushRead(p) PROVE JobInv'
  BY <1>13 DEF PushRead, PushGoto
<1>14. ASSUME NEW p \in Pushes, PushEof(p) PROVE JobInv'
  BY <1>14 DEF PushEof, PushGoto
<1>15. ASSUME NEW p \in Pushes, PushReset(p) PROVE JobInv'
  BY <1>15 DEF PushReset, PushGoto
<1>16. ASSUME NEW p \in Pushes, PushRelease(p) PROVE JobInv'
  BY <1>16 DEF PushRelease, PushGoto
<1>17. ASSUME NEW p \in Pushes, PushEnd(p) PROVE JobInv'
  BY <1>17 DEF PushEnd
<1>18. ASSUME NEW x \in Threads, NEW p \in Pushes, StartPush(x, p) PROVE JobInv'
  BY <1>18 DEF StartPush, Goto
<1>19. ASSUME NEW x \in Conns, ReceiveAny(x) PROVE JobInv'
  BY <1>19 DEF ReceiveAny, Receive
<1>20. ASSUME NEW d \in Dests, Keepalive(d) PROVE JobInv'
  BY <1>20 DEF Keepalive
<1>21. ASSUME Sweep PROVE JobInv'
  BY <1>21 DEF Sweep, Goto
<1>22. ASSUME Silence PROVE JobInv'
  BY <1>22 DEF Silence
<1>23. ASSUME OtherClaim PROVE JobInv'
  BY <1>23 DEF OtherClaim
<1>24. ASSUME OtherRelease PROVE JobInv'
  BY <1>24 DEF OtherRelease
<1>25. ASSUME SignalChange PROVE JobInv'
  BY <1>25 DEF SignalChange
<1>26. CASE UNCHANGED vars
  BY <1>26 DEF vars
<1> HIDE DEF IInv, TypeOK, JobInv, ActiveIsNewest, MatchIsNewest, ClaimIsPush, Jobs
<1> QED
  BY <1>1, <1>2, <1>3, <1>4, <1>5, <1>6, <1>7, <1>8, <1>9, <1>10, <1>11,
     <1>12, <1>13, <1>14, <1>15, <1>16, <1>17, <1>18, <1>19, <1>20, <1>21,
     <1>22, <1>23, <1>24, <1>25, <1>26
     DEF Next, Step, PushStep, Env

\* Every step leaves udp_push_active with the newest push.
LEMMA ActiveStep == TypeOK /\ ActiveIsNewest /\ [Next]_vars => ActiveIsNewest'
<1> SUFFICES ASSUME TypeOK, ActiveIsNewest, [Next]_vars PROVE ActiveIsNewest'
  OBVIOUS
<1> USE UdpPushAssumption
    DEF TypeOK, ActiveIsNewest, Alive, Threads,
        At, PushAt, flagVars, kaVars, selVars, pushVars, ctlVars
<1>1. ASSUME NEW x \in Threads, UdpPushStop(x) PROVE ActiveIsNewest'
  BY <1>1 DEF UdpPushStop, AfterStop, Goto, Finish
<1>2. ASSUME NEW x \in Threads, ClearTarget(x) PROVE ActiveIsNewest'
  BY <1>2 DEF ClearTarget, Finish
<1>3. ASSUME NEW x \in Threads, BindChannel(x) PROVE ActiveIsNewest'
  BY <1>3 DEF BindChannel, Finish
<1>4. ASSUME NEW x \in Threads, ClearChannel(x) PROVE ActiveIsNewest'
  BY <1>4 DEF ClearChannel, Finish
<1>5. ASSUME NEW x \in Threads, Snapshot(x) PROVE ActiveIsNewest'
  BY <1>5 DEF Snapshot, Finish
<1>6. ASSUME NEW x \in Threads, Lookup(x) PROVE ActiveIsNewest'
  BY <1>6 DEF Lookup, Finish
<1>7. ASSUME NEW x \in Threads, StartFails(x) PROVE ActiveIsNewest'
  BY <1>7 DEF StartFails, Finish
<1>8. ASSUME NEW x \in Threads, SetTarget(x) PROVE ActiveIsNewest'
  BY <1>8 DEF SetTarget, Finish
<1>9. ASSUME NEW p \in Pushes, PushStart(p) PROVE ActiveIsNewest'
  BY <1>9 DEF PushStart, PushGoto
<1>10. ASSUME NEW p \in Pushes, PushClaim(p) PROVE ActiveIsNewest'
  BY <1>10 DEF PushClaim, PushGoto
<1>11. ASSUME NEW p \in Pushes, PushOpen(p) PROVE ActiveIsNewest'
  BY <1>11 DEF PushOpen, PushGoto
<1>12. ASSUME NEW p \in Pushes, PushLoop(p) PROVE ActiveIsNewest'
  BY <1>12 DEF PushLoop, PushGoto
<1>13. ASSUME NEW p \in Pushes, PushRead(p) PROVE ActiveIsNewest'
  BY <1>13 DEF PushRead, PushGoto
<1>14. ASSUME NEW p \in Pushes, PushEof(p) PROVE ActiveIsNewest'
  BY <1>14 DEF PushEof, PushGoto
<1>15. ASSUME NEW p \in Pushes, PushReset(p) PROVE ActiveIsNewest'
  BY <1>15 DEF PushReset, PushGoto
<1>16. ASSUME NEW p \in Pushes, PushRelease(p) PROVE ActiveIsNewest'
  BY <1>16 DEF PushRelease, PushGoto
<1>17. ASSUME NEW p \in Pushes, PushEnd(p) PROVE ActiveIsNewest'
  BY <1>17 DEF PushEnd
<1>18. ASSUME NEW x \in Threads, NEW p \in Pushes, StartPush(x, p) PROVE ActiveIsNewest'
  BY <1>18 DEF StartPush, Goto
<1>19. ASSUME NEW x \in Conns, ReceiveAny(x) PROVE ActiveIsNewest'
  BY <1>19 DEF ReceiveAny, Receive
<1>20. ASSUME NEW d \in Dests, Keepalive(d) PROVE ActiveIsNewest'
  BY <1>20 DEF Keepalive
<1>21. ASSUME Sweep PROVE ActiveIsNewest'
  BY <1>21 DEF Sweep, Goto
<1>22. ASSUME Silence PROVE ActiveIsNewest'
  BY <1>22 DEF Silence
<1>23. ASSUME OtherClaim PROVE ActiveIsNewest'
  BY <1>23 DEF OtherClaim
<1>24. ASSUME OtherRelease PROVE ActiveIsNewest'
  BY <1>24 DEF OtherRelease
<1>25. ASSUME SignalChange PROVE ActiveIsNewest'
  BY <1>25 DEF SignalChange
<1>26. CASE UNCHANGED vars
  BY <1>26 DEF vars
<1> HIDE DEF IInv, TypeOK, JobInv, ActiveIsNewest, MatchIsNewest, ClaimIsPush, Jobs
<1> QED
  BY <1>1, <1>2, <1>3, <1>4, <1>5, <1>6, <1>7, <1>8, <1>9, <1>10, <1>11,
     <1>12, <1>13, <1>14, <1>15, <1>16, <1>17, <1>18, <1>19, <1>20, <1>21,
     <1>22, <1>23, <1>24, <1>25, <1>26
     DEF Next, Step, PushStep, Env

\* Every step leaves the keepalive fields with the newest push.
LEMMA MatchStep == TypeOK /\ ActiveIsNewest /\ MatchIsNewest /\ [Next]_vars => MatchIsNewest'
<1> SUFFICES ASSUME TypeOK, ActiveIsNewest, MatchIsNewest, [Next]_vars PROVE MatchIsNewest'
  OBVIOUS
<1> USE UdpPushAssumption
    DEF TypeOK, ActiveIsNewest, MatchIsNewest, Alive, Threads,
        At, PushAt, flagVars, kaVars, selVars, pushVars, ctlVars
<1>1. ASSUME NEW x \in Threads, UdpPushStop(x) PROVE MatchIsNewest'
  BY <1>1 DEF UdpPushStop, AfterStop, Goto, Finish
<1>2. ASSUME NEW x \in Threads, ClearTarget(x) PROVE MatchIsNewest'
  BY <1>2 DEF ClearTarget, Finish
<1>3. ASSUME NEW x \in Threads, BindChannel(x) PROVE MatchIsNewest'
  BY <1>3 DEF BindChannel, Finish
<1>4. ASSUME NEW x \in Threads, ClearChannel(x) PROVE MatchIsNewest'
  BY <1>4 DEF ClearChannel, Finish
<1>5. ASSUME NEW x \in Threads, Snapshot(x) PROVE MatchIsNewest'
  BY <1>5 DEF Snapshot, Finish
<1>6. ASSUME NEW x \in Threads, Lookup(x) PROVE MatchIsNewest'
  BY <1>6 DEF Lookup, Finish
<1>7. ASSUME NEW x \in Threads, StartFails(x) PROVE MatchIsNewest'
  BY <1>7 DEF StartFails, Finish
<1>8. ASSUME NEW x \in Threads, SetTarget(x) PROVE MatchIsNewest'
  BY <1>8 DEF SetTarget, Finish
<1>9. ASSUME NEW p \in Pushes, PushStart(p) PROVE MatchIsNewest'
  BY <1>9 DEF PushStart, PushGoto
<1>10. ASSUME NEW p \in Pushes, PushClaim(p) PROVE MatchIsNewest'
  BY <1>10 DEF PushClaim, PushGoto
<1>11. ASSUME NEW p \in Pushes, PushOpen(p) PROVE MatchIsNewest'
  BY <1>11 DEF PushOpen, PushGoto
<1>12. ASSUME NEW p \in Pushes, PushLoop(p) PROVE MatchIsNewest'
  BY <1>12 DEF PushLoop, PushGoto
<1>13. ASSUME NEW p \in Pushes, PushRead(p) PROVE MatchIsNewest'
  BY <1>13 DEF PushRead, PushGoto
<1>14. ASSUME NEW p \in Pushes, PushEof(p) PROVE MatchIsNewest'
  BY <1>14 DEF PushEof, PushGoto
<1>15. ASSUME NEW p \in Pushes, PushReset(p) PROVE MatchIsNewest'
  BY <1>15 DEF PushReset, PushGoto
<1>16. ASSUME NEW p \in Pushes, PushRelease(p) PROVE MatchIsNewest'
  BY <1>16 DEF PushRelease, PushGoto
<1>17. ASSUME NEW p \in Pushes, PushEnd(p) PROVE MatchIsNewest'
  BY <1>17 DEF PushEnd
<1>18. ASSUME NEW x \in Threads, NEW p \in Pushes, StartPush(x, p) PROVE MatchIsNewest'
  BY <1>18 DEF StartPush, Goto
<1>19. ASSUME NEW x \in Conns, ReceiveAny(x) PROVE MatchIsNewest'
  BY <1>19 DEF ReceiveAny, Receive
<1>20. ASSUME NEW d \in Dests, Keepalive(d) PROVE MatchIsNewest'
  BY <1>20 DEF Keepalive
<1>21. ASSUME Sweep PROVE MatchIsNewest'
  BY <1>21 DEF Sweep, Goto
<1>22. ASSUME Silence PROVE MatchIsNewest'
  BY <1>22 DEF Silence
<1>23. ASSUME OtherClaim PROVE MatchIsNewest'
  BY <1>23 DEF OtherClaim
<1>24. ASSUME OtherRelease PROVE MatchIsNewest'
  BY <1>24 DEF OtherRelease
<1>25. ASSUME SignalChange PROVE MatchIsNewest'
  BY <1>25 DEF SignalChange
<1>26. CASE UNCHANGED vars
  BY <1>26 DEF vars
<1> HIDE DEF IInv, TypeOK, JobInv, ActiveIsNewest, MatchIsNewest, ClaimIsPush, Jobs
<1> QED
  BY <1>1, <1>2, <1>3, <1>4, <1>5, <1>6, <1>7, <1>8, <1>9, <1>10, <1>11,
     <1>12, <1>13, <1>14, <1>15, <1>16, <1>17, <1>18, <1>19, <1>20, <1>21,
     <1>22, <1>23, <1>24, <1>25, <1>26
     DEF Next, Step, PushStep, Env

\* Every step leaves the claim with the push that took it.
LEMMA ClaimStep == TypeOK /\ ClaimIsPush /\ [Next]_vars => ClaimIsPush'
<1> SUFFICES ASSUME TypeOK, ClaimIsPush, [Next]_vars PROVE ClaimIsPush'
  OBVIOUS
<1> USE UdpPushAssumption
    DEF TypeOK, ClaimIsPush, ClaimedPcs, PushPcs, Threads,
        At, PushAt, flagVars, kaVars, selVars, pushVars, ctlVars
<1>1. ASSUME NEW x \in Threads, UdpPushStop(x) PROVE ClaimIsPush'
  BY <1>1 DEF UdpPushStop, AfterStop, Goto, Finish
<1>2. ASSUME NEW x \in Threads, ClearTarget(x) PROVE ClaimIsPush'
  BY <1>2 DEF ClearTarget, Finish
<1>3. ASSUME NEW x \in Threads, BindChannel(x) PROVE ClaimIsPush'
  BY <1>3 DEF BindChannel, Finish
<1>4. ASSUME NEW x \in Threads, ClearChannel(x) PROVE ClaimIsPush'
  BY <1>4 DEF ClearChannel, Finish
<1>5. ASSUME NEW x \in Threads, Snapshot(x) PROVE ClaimIsPush'
  BY <1>5 DEF Snapshot, Finish
<1>6. ASSUME NEW x \in Threads, Lookup(x) PROVE ClaimIsPush'
  BY <1>6 DEF Lookup, Finish
<1>7. ASSUME NEW x \in Threads, StartFails(x) PROVE ClaimIsPush'
  BY <1>7 DEF StartFails, Finish
<1>8. ASSUME NEW x \in Threads, SetTarget(x) PROVE ClaimIsPush'
  BY <1>8 DEF SetTarget, Finish
<1>9. ASSUME NEW p \in Pushes, PushStart(p) PROVE ClaimIsPush'
  BY <1>9 DEF PushStart, PushGoto
<1>10. ASSUME NEW p \in Pushes, PushClaim(p) PROVE ClaimIsPush'
  BY <1>10 DEF PushClaim, PushGoto
<1>11. ASSUME NEW p \in Pushes, PushOpen(p) PROVE ClaimIsPush'
  BY <1>11 DEF PushOpen, PushGoto
<1>12. ASSUME NEW p \in Pushes, PushLoop(p) PROVE ClaimIsPush'
  BY <1>12 DEF PushLoop, PushGoto
<1>13. ASSUME NEW p \in Pushes, PushRead(p) PROVE ClaimIsPush'
  BY <1>13 DEF PushRead, PushGoto
<1>14. ASSUME NEW p \in Pushes, PushEof(p) PROVE ClaimIsPush'
  BY <1>14 DEF PushEof, PushGoto
<1>15. ASSUME NEW p \in Pushes, PushReset(p) PROVE ClaimIsPush'
  BY <1>15 DEF PushReset, PushGoto
<1>16. ASSUME NEW p \in Pushes, PushRelease(p) PROVE ClaimIsPush'
  BY <1>16 DEF PushRelease, PushGoto
<1>17. ASSUME NEW p \in Pushes, PushEnd(p) PROVE ClaimIsPush'
  BY <1>17 DEF PushEnd
<1>18. ASSUME NEW x \in Threads, NEW p \in Pushes, StartPush(x, p) PROVE ClaimIsPush'
  BY <1>18 DEF StartPush, Goto
<1>19. ASSUME NEW x \in Conns, ReceiveAny(x) PROVE ClaimIsPush'
  BY <1>19 DEF ReceiveAny, Receive
<1>20. ASSUME NEW d \in Dests, Keepalive(d) PROVE ClaimIsPush'
  BY <1>20 DEF Keepalive
<1>21. ASSUME Sweep PROVE ClaimIsPush'
  BY <1>21 DEF Sweep, Goto
<1>22. ASSUME Silence PROVE ClaimIsPush'
  BY <1>22 DEF Silence
<1>23. ASSUME OtherClaim PROVE ClaimIsPush'
  BY <1>23 DEF OtherClaim
<1>24. ASSUME OtherRelease PROVE ClaimIsPush'
  BY <1>24 DEF OtherRelease
<1>25. ASSUME SignalChange PROVE ClaimIsPush'
  BY <1>25 DEF SignalChange
<1>26. CASE UNCHANGED vars
  BY <1>26 DEF vars
<1> HIDE DEF IInv, TypeOK, JobInv, ActiveIsNewest, MatchIsNewest, ClaimIsPush, Jobs
<1> QED
  BY <1>1, <1>2, <1>3, <1>4, <1>5, <1>6, <1>7, <1>8, <1>9, <1>10, <1>11,
     <1>12, <1>13, <1>14, <1>15, <1>16, <1>17, <1>18, <1>19, <1>20, <1>21,
     <1>22, <1>23, <1>24, <1>25, <1>26
     DEF Next, Step, PushStep, Env

\* The inductive invariant holds in every behaviour.
THEOREM Inductive == Spec => []IInv
<1>1. IInv /\ [Next]_vars => IInv'
  BY TypeStep, JobStep, ActiveStep, MatchStep, ClaimStep DEF IInv
<1> QED
  BY InitInv, <1>1, PTL DEF Spec

\* Every field always has a value the code can give it.
THEOREM TypeCorrect == Spec => []TypeOK
<1>1. IInv => TypeOK
  BY DEF IInv
<1> QED
  BY Inductive, <1>1, PTL

\* udp_push_active is up exactly while the newest push is alive, whatever older
\* pushes survived their stop (udp_push_generation's purpose).
THEOREM FlagIsNewest == Spec => []ActiveIsNewest
<1>1. IInv => ActiveIsNewest
  BY DEF IInv
<1> QED
  BY Inductive, <1>1, PTL

\* Keepalive packets are matched with the newest push's destination.
THEOREM KeepaliveIsNewest == Spec => []MatchIsNewest
<1>1. IInv => MatchIsNewest
  BY DEF IInv
<1> QED
  BY Inductive, <1>1, PTL

\* At most one push at a time has the tuner, and it gives it back.
THEOREM ClaimedByPush == Spec => []ClaimIsPush
<1>1. IInv => ClaimIsPush
  BY DEF IInv
<1> QED
  BY Inductive, <1>1, PTL

\* Flag and keepalive fields are the newest push's, however pushes overlap.
THEOREM NewestInForce == Spec => []FieldsAreNewest
<1>1. IInv => FieldsAreNewest
  BY DEF IInv, FieldsAreNewest
<1> QED
  BY Inductive, <1>1, PTL

-----------------------------------------------------------------------------
(* Byte streams made of pieces *)

\* Induction over the numbers, with a set for the predicate.
LEMMA NatSetInduction ==
  ASSUME NEW S, 0 \in S, \A n \in Nat : n \in S => n + 1 \in S
  PROVE  Nat \subseteq S
<1> DEFINE Bad == Nat \ S
<1> SUFFICES ASSUME Bad # {} PROVE FALSE
  OBVIOUS
<1>1. \E x \in Bad : \A y \in Bad : ~(<<y, x>> \in OpToRel(<, Nat))
  BY WFMin, NatLessThanWellFounded
<1>2. PICK m \in Bad : \A y \in Bad : ~(<<y, m>> \in OpToRel(<, Nat))
  BY <1>1
<1>3. m \in Nat /\ m # 0
  OBVIOUS
<1>4. m - 1 \in Nat /\ m - 1 < m /\ (m - 1) + 1 = m
  BY <1>3
<1>5. m - 1 \in S
  BY <1>2, <1>3, <1>4 DEF OpToRel
<1> QED
  BY <1>4, <1>5

\* The pieces up to each of them, put together.
Flat(fr) ==
  CHOOSE t : t = [i \in 1 .. Len(fr) |-> IF i = 1 THEN fr[i] ELSE t[i - 1] \o fr[i]]

\* The recursive function in FlattenSeq exists.
LEMMA FlatDef ==
  ASSUME NEW B, NEW fr \in Seq(B)
  PROVE  /\ Flat(fr) = [i \in 1 .. Len(fr) |->
                          IF i = 1 THEN fr[i] ELSE Flat(fr)[i - 1] \o fr[i]]
         /\ FlattenSeq(fr) = IF Len(fr) = 0 THEN fr ELSE Flat(fr)[Len(fr)]
<1> DEFINE Is(N, t) == t = [i \in 1 .. N |-> IF i = 1 THEN fr[i] ELSE t[i - 1] \o fr[i]]
           S == {N \in Nat : \E t : Is(N, t)}
<1>1. 0 \in S
  <2>1. Is(0, [i \in 1 .. 0 |-> 0])
    OBVIOUS
  <2> QED
    BY <2>1
<1>2. ASSUME NEW N \in Nat, N \in S PROVE N + 1 \in S
  <2>1. PICK t : Is(N, t)
    BY <1>2
  <2> DEFINE last == IF N + 1 = 1 THEN fr[N + 1] ELSE t[N] \o fr[N + 1]
             u == [i \in 1 .. N + 1 |-> IF i = N + 1 THEN last ELSE t[i]]
  <2>2. ASSUME NEW i \in 1 .. N + 1
        PROVE  u[i] = IF i = 1 THEN fr[i] ELSE u[i - 1] \o fr[i]
    <3>1. CASE i = N + 1 /\ i = 1
      BY <3>1
    <3>2. CASE i = N + 1 /\ i # 1
      <4>1. i - 1 \in 1 .. N + 1 /\ i - 1 # N + 1 /\ i - 1 = N /\ N + 1 # 1
        BY <3>2
      <4>2. u[i - 1] = t[N] /\ u[i] = t[N] \o fr[N + 1]
        BY <3>2, <4>1
      <4> HIDE DEF u
      <4> QED
        BY <3>2, <4>2
    <3>3. CASE i # N + 1
      <4>1. i \in 1 .. N /\ (i # 1 => i - 1 \in 1 .. N + 1 /\ i - 1 # N + 1)
        BY <3>3
      <4>2. t[i] = IF i = 1 THEN fr[i] ELSE t[i - 1] \o fr[i]
        BY <4>1, <2>1
      <4>3. u[i] = t[i] /\ (i # 1 => u[i - 1] = t[i - 1])
        BY <3>3, <4>1
      <4> HIDE DEF u
      <4> QED
        BY <4>2, <4>3
    <3> QED
      BY <3>1, <3>2, <3>3
  <2>3. Is(N + 1, u)
    BY <2>2
  <2> HIDE DEF u, Is
  <2> QED
    BY <2>3
<1>3. Nat \subseteq S
  <2> HIDE DEF S
  <2> QED
    BY <1>1, <1>2, NatSetInduction
<1>4. \E t : Is(Len(fr), t)
  <2>1. Len(fr) \in S
    <3> HIDE DEF S
    <3> QED
      BY <1>3
  <2> HIDE DEF Is
  <2> QED
    BY <2>1
<1>5. Is(Len(fr), Flat(fr))
  BY <1>4 DEF Flat
<1>6. FlattenSeq(fr) = IF Len(fr) = 0 THEN fr ELSE Flat(fr)[Len(fr)]
  BY DEF FlattenSeq, Flat
<1> QED
  BY <1>5, <1>6

\* The first n pieces, and where they end.
Pieces(fr, n) == IF n = 0 THEN <<>> ELSE Flat(fr)[n]
Off(fr, n)    == Len(Pieces(fr, n))

\* Each piece is appended to the ones before it, and the stream is all of them.
LEMMA PiecesGrow ==
  ASSUME NEW B, NEW fr \in Seq(Seq(B))
  PROVE  /\ \A n \in 0 .. Len(fr) : Pieces(fr, n) \in Seq(B)
         /\ \A n \in 1 .. Len(fr) : Pieces(fr, n) = Pieces(fr, n - 1) \o fr[n]
         /\ FlattenSeq(fr) = Pieces(fr, Len(fr))
         /\ Off(fr, 0) = 0
<1>0. Len(fr) \in Nat
  OBVIOUS
<1>d. /\ Flat(fr) = [i \in 1 .. Len(fr) |->
                       IF i = 1 THEN fr[i] ELSE Flat(fr)[i - 1] \o fr[i]]
      /\ FlattenSeq(fr) = IF Len(fr) = 0 THEN fr ELSE Flat(fr)[Len(fr)]
  BY FlatDef
<1>1. ASSUME NEW n \in 1 .. Len(fr) PROVE Pieces(fr, n) = Pieces(fr, n - 1) \o fr[n]
  <2>1. fr[n] \in Seq(B) /\ n # 0
    OBVIOUS
  <2>2. Flat(fr)[n] = IF n = 1 THEN fr[n] ELSE Flat(fr)[n - 1] \o fr[n]
    BY <1>d
  <2>3. CASE n = 1
    <3>1. <<>> \o fr[n] = fr[n]
      BY <2>1, ConcatEmptySeq
    <3> QED
      BY <2>2, <2>3, <3>1 DEF Pieces
  <2>4. CASE n # 1
    <3>1. n - 1 # 0
      BY <2>4
    <3> QED
      BY <2>1, <2>2, <2>4, <3>1 DEF Pieces
  <2> QED
    BY <2>3, <2>4
<1>2. \A n \in 0 .. Len(fr) : Pieces(fr, n) \in Seq(B)
  <2> DEFINE I == {k \in Nat : k <= Len(fr) => Pieces(fr, k) \in Seq(B)}
  <2>1. 0 \in I
    BY DEF Pieces
  <2>2. ASSUME NEW k \in Nat, k \in I PROVE k + 1 \in I
    <3> SUFFICES ASSUME k + 1 <= Len(fr) PROVE Pieces(fr, k + 1) \in Seq(B)
      OBVIOUS
    <3>1. Pieces(fr, k) \in Seq(B)
      BY <1>0, <2>2
    <3>2. k + 1 \in 1 .. Len(fr) /\ (k + 1) - 1 = k
      BY <1>0
    <3>3. fr[k + 1] \in Seq(B)
      BY <3>2
    <3>4. Pieces(fr, k + 1) = Pieces(fr, k) \o fr[k + 1]
      BY <1>1, <3>2
    <3> QED
      BY <3>1, <3>3, <3>4, ConcatProperties
  <2>3. Nat \subseteq I
    <3> HIDE DEF I
    <3> QED
      BY <2>1, <2>2, NatSetInduction
  <2> QED
    BY <1>0, <2>3
<1>3. FlattenSeq(fr) = Pieces(fr, Len(fr))
  <2>1. Len(fr) = 0 => fr = <<>>
    OBVIOUS
  <2> QED
    BY <1>d, <2>1 DEF Pieces
<1>4. Off(fr, 0) = 0
  BY DEF Off, Pieces
<1> QED
  BY <1>1, <1>2, <1>3, <1>4

\* A stream holds its pieces one after the other.
LEMMA StreamIsPieces ==
  ASSUME NEW B, NEW fr \in Seq(Seq(B))
  PROVE  /\ FlattenSeq(fr) \in Seq(B)
         /\ Off(fr, 0) = 0 /\ Off(fr, Len(fr)) = Len(FlattenSeq(fr))
         /\ \A n \in 0 .. Len(fr) : Off(fr, n) \in Nat /\ Off(fr, n) <= Len(FlattenSeq(fr))
         /\ \A n \in 1 .. Len(fr) :
              /\ Off(fr, n) = Off(fr, n - 1) + Len(fr[n])
              /\ \A j \in 1 .. Len(fr[n]) : FlattenSeq(fr)[Off(fr, n - 1) + j] = fr[n][j]
<1> DEFINE W == FlattenSeq(fr)
           L == Len(fr)
<1>0. L \in Nat /\ L \in 0 .. L
  OBVIOUS
<1>g. /\ \A n \in 0 .. L : Pieces(fr, n) \in Seq(B)
      /\ \A n \in 1 .. L : Pieces(fr, n) = Pieces(fr, n - 1) \o fr[n]
      /\ W = Pieces(fr, L)
      /\ Off(fr, 0) = 0
  BY PiecesGrow
<1> HIDE DEF W
<1>1. W \in Seq(B) /\ Off(fr, L) = Len(W)
  BY <1>0, <1>g DEF Off
<1>2. ASSUME NEW n \in 1 .. L
      PROVE  /\ Pieces(fr, n - 1) \in Seq(B) /\ Pieces(fr, n) \in Seq(B) /\ fr[n] \in Seq(B)
             /\ Off(fr, n) = Off(fr, n - 1) + Len(fr[n])
             /\ \A j \in 1 .. Len(fr[n]) : Pieces(fr, n)[Off(fr, n - 1) + j] = fr[n][j]
             /\ \A j \in 1 .. Off(fr, n - 1) : Pieces(fr, n)[j] = Pieces(fr, n - 1)[j]
  <2>1. n - 1 \in 0 .. L /\ n \in 0 .. L
    BY <1>0
  <2>2. Pieces(fr, n - 1) \in Seq(B) /\ Pieces(fr, n) \in Seq(B) /\ fr[n] \in Seq(B)
    BY <1>g, <2>1
  <2>3. Pieces(fr, n) = Pieces(fr, n - 1) \o fr[n]
    BY <1>g
  <2> DEFINE p == Pieces(fr, n - 1)
             q == Pieces(fr, n)
             r == fr[n]
  <2>4. p \in Seq(B) /\ r \in Seq(B) /\ q = p \o r
    BY <2>2, <2>3
  <2> HIDE DEF p, q, r
  <2>5. /\ Len(q) = Len(p) + Len(r)
        /\ \A j \in 1 .. Len(r) : q[Len(p) + j] = r[j]
        /\ \A j \in 1 .. Len(p) : q[j] = p[j]
    BY <2>4
  <2> QED
    BY <2>2, <2>5 DEF Off, p, q, r
<1>3. ASSUME NEW n \in 0 .. L PROVE Off(fr, n) \in Nat
  BY <1>g DEF Off
<1>4. ASSUME NEW n \in 0 .. L
      PROVE  Off(fr, n) <= Len(W) /\ \A j \in 1 .. Off(fr, n) : W[j] = Pieces(fr, n)[j]
  <2> DEFINE I == {k \in Nat : k <= L =>
                     /\ Off(fr, L - k) <= Len(W)
                     /\ \A j \in 1 .. Off(fr, L - k) : W[j] = Pieces(fr, L - k)[j]}
  <2>1. 0 \in I
    <3>1. L - 0 = L /\ Off(fr, L) \in Nat
      BY <1>0, <1>3
    <3> QED
      BY <1>1, <1>g, <3>1
  <2>2. ASSUME NEW k \in Nat, k \in I PROVE k + 1 \in I
    <3> SUFFICES ASSUME k + 1 <= L
                 PROVE  /\ Off(fr, L - (k + 1)) <= Len(W)
                        /\ \A j \in 1 .. Off(fr, L - (k + 1)) : W[j] = Pieces(fr, L - (k + 1))[j]
      OBVIOUS
    <3> DEFINE m == L - k
    <3>1. m \in 1 .. L /\ L - (k + 1) = m - 1 /\ m - 1 \in 0 .. L /\ m \in 0 .. L
      BY <1>0
    <3>2. Off(fr, m) <= Len(W) /\ \A j \in 1 .. Off(fr, m) : W[j] = Pieces(fr, m)[j]
      BY <1>0, <2>2
    <3> HIDE DEF m
    <3>3. Off(fr, m) \in Nat /\ Off(fr, m - 1) \in Nat
      BY <1>3, <3>1
    <3>4. Len(W) \in Nat /\ Len(fr[m]) \in Nat
      BY <1>1, <1>2, <3>1
    <3>5. /\ Off(fr, m) = Off(fr, m - 1) + Len(fr[m])
          /\ \A j \in 1 .. Off(fr, m - 1) : Pieces(fr, m)[j] = Pieces(fr, m - 1)[j]
      BY <1>2, <3>1
    <3>6. Off(fr, m - 1) <= Off(fr, m)
      BY <3>3, <3>4, <3>5
    <3>7. Off(fr, m - 1) <= Len(W)
      BY <3>2, <3>3, <3>4, <3>6
    <3>8. ASSUME NEW j \in 1 .. Off(fr, m - 1) PROVE W[j] = Pieces(fr, m - 1)[j]
      <4>1. j \in 1 .. Off(fr, m)
        BY <3>3, <3>6
      <4> QED
        BY <3>2, <3>5, <4>1
    <3> QED
      BY <3>1, <3>7, <3>8
  <2>3. Nat \subseteq I
    <3> HIDE DEF I
    <3> QED
      BY <2>1, <2>2, NatSetInduction
  <2>4. L - n \in Nat /\ L - n <= L /\ L - (L - n) = n
    BY <1>0
  <2>5. L - n \in I
    BY <2>3, <2>4
  <2> QED
    BY <2>4, <2>5
<1>5. ASSUME NEW n \in 1 .. L, NEW j \in 1 .. Len(fr[n])
      PROVE  W[Off(fr, n - 1) + j] = fr[n][j]
  <2>1. n \in 0 .. L /\ n - 1 \in 0 .. L
    BY <1>0
  <2>2. Off(fr, n) \in Nat /\ Off(fr, n - 1) \in Nat /\ Len(fr[n]) \in Nat
    BY <1>2, <1>3, <2>1
  <2>3. Off(fr, n - 1) + j \in 1 .. Off(fr, n)
    <3>1. Off(fr, n) = Off(fr, n - 1) + Len(fr[n])
      BY <1>2
    <3> QED
      BY <2>2, <3>1
  <2>4. W[Off(fr, n - 1) + j] = Pieces(fr, n)[Off(fr, n - 1) + j]
    BY <1>4, <2>1, <2>3
  <2> QED
    BY <1>2, <2>4
<1>6. \A n \in 1 .. L :
        /\ Off(fr, n) = Off(fr, n - 1) + Len(fr[n])
        /\ \A j \in 1 .. Len(fr[n]) : W[Off(fr, n - 1) + j] = fr[n][j]
  BY <1>2, <1>5
<1>7. \A n \in 0 .. L : Off(fr, n) \in Nat /\ Off(fr, n) <= Len(W)
  BY <1>3, <1>4
<1>8. /\ W \in Seq(B) /\ Off(fr, 0) = 0 /\ Off(fr, L) = Len(W)
      /\ \A n \in 0 .. L : Off(fr, n) \in Nat /\ Off(fr, n) <= Len(W)
      /\ \A n \in 1 .. L :
           /\ Off(fr, n) = Off(fr, n - 1) + Len(fr[n])
           /\ \A j \in 1 .. Len(fr[n]) : W[Off(fr, n - 1) + j] = fr[n][j]
  BY <1>1, <1>6, <1>7, <1>g
<1> QED
  BY <1>8 DEF W

-----------------------------------------------------------------------------
(* The codec: TLVs are read as they were written *)

Plain == {<<n>> : n \in Nat}

\* What the model calls bytes is a sequence of plain bytes.
LEMMA BytesArePlain ==
  ASSUME NEW s, IsBytes(s)
  PROVE  s \in Seq(Plain)
<1>1. s \in Seq(Range(s))
  BY DEF IsBytes
<1>2. \A i \in 1 .. Len(s) : s[i] \in Plain
  BY <1>1 DEF IsBytes, Plain
<1>3. Len(s) \in Nat /\ DOMAIN s = 1 .. Len(s)
  BY <1>1
<1>4. s = [i \in 1 .. Len(s) |-> s[i]]
  BY <1>1
<1> QED
  BY <1>2, <1>3, <1>4

\* Both bytes of a length give it back.
LEMMA TwoBytes ==
  ASSUME NEW n \in Nat, n < LengthCap
  PROVE  /\ n % Base \in Nat /\ n % Base < Base
         /\ (n \div Base) % (2 * Base) \in Nat
         /\ (n % Base) + Base * ((n \div Base) % (2 * Base)) = n
<1>1. Base \in Nat /\ Base > 0 /\ 2 * Base \in Nat \ {0} /\ Base * (2 * Base) \in Nat
  BY WireAssumption
<1> DEFINE r == n % Base
           q == n \div Base
<1>2. r \in Nat /\ r < Base /\ q \in Nat
  BY <1>1
<1>3. r = n - Base * q
  BY <1>1
<1> HIDE DEF r, q
<1>4. q < 2 * Base
  <2>1. Base * q + r < Base * (2 * Base)
    BY <1>1, <1>2, <1>3 DEF LengthCap
  <2>2. \A b \in Nat \ {0}, c, d \in Nat : b * c + r < b * d => c < d
    BY <1>2
  <2> QED
    BY <1>1, <1>2, <2>1, <2>2
<1>5. q % (2 * Base) = q
  BY <1>1, <1>2, <1>4
<1>6. r + Base * q = n
  BY <1>1, <1>2, <1>3
<1>7. r \in Nat /\ r < Base /\ q % (2 * Base) \in Nat /\ r + Base * (q % (2 * Base)) = n
  BY <1>2, <1>5, <1>6
<1> QED
  BY <1>7 DEF r, q

\* Where the value of a written TLV begins.
Head2(val) == IF Len(val) < Base THEN 2 ELSE 3

\* What hdhr_pkt_write_tlv writes: the tag, one or two bytes of length, the value.
LEMMA WriteIs ==
  ASSUME NEW tag \in Nat, NEW val \in Seq(Plain), Len(val) < LengthCap
  PROVE  LET w == write_tlv(tag, val)
         IN  /\ w \in Seq(Plain) /\ Len(w) = Head2(val) + Len(val) /\ w[1] = <<tag>>
             /\ \A j \in 1 .. Len(val) : w[Head2(val) + j] = val[j]
             /\ Len(val) < Base => w[2] = <<Len(val)>>
             /\ ~(Len(val) < Base) =>
                  \E lo, hi \in Nat : /\ w[2] = <<lo + Base>> /\ w[3] = <<hi>>
                                      /\ lo + Base * hi = Len(val)
<1> DEFINE n == Len(val)
           vl == write_var_length(n)
           w == write_tlv(tag, val)
<1>0. n \in Nat /\ Base \in Nat /\ <<tag>> \in Plain
  BY WireAssumption DEF Plain
<1>1. CASE n < Base
  <2>1. vl = <<<<n>>>> /\ Head2(val) = 2
    BY <1>1 DEF write_var_length, Head2
  <2>2. <<n>> \in Plain
    BY <1>0 DEF Plain
  <2>3. w = <<<<tag>>>> \o <<<<n>>>> \o val
    BY <2>1 DEF write_tlv
  <2> DEFINE x == <<tag>>
             y == <<n>>
  <2> HIDE DEF n, w, x, y
  <2>4. x \in Plain /\ y \in Plain /\ w = <<x>> \o <<y>> \o val /\ n = Len(val)
    BY <1>0, <2>2, <2>3 DEF x, y, n
  <2>5. <<x>> \in Seq(Plain) /\ <<y>> \in Seq(Plain)
    BY <2>4
  <2>6. /\ w \in Seq(Plain) /\ Len(w) = 2 + n /\ w[1] = x /\ w[2] = y
        /\ \A j \in 1 .. n : w[2 + j] = val[j]
    BY <2>4, <2>5
  <2> QED
    BY <1>1, <2>1, <2>6 DEF x, y, n, w
<1>2. CASE ~(n < Base)
  <2> DEFINE lo == n % Base
             hi == (n \div Base) % (2 * Base)
  <2>0. lo \in Nat /\ hi \in Nat /\ lo + Base * hi = n
    BY <1>0, TwoBytes
  <2>1. vl = <<<<lo + Base>>, <<hi>>>> /\ Head2(val) = 3
    BY <1>2 DEF write_var_length, Head2
  <2>3. w = <<<<tag>>>> \o <<<<lo + Base>>, <<hi>>>> \o val
    BY <2>1 DEF write_tlv
  <2> HIDE DEF lo, hi
  <2>2. <<lo + Base>> \in Plain /\ <<hi>> \in Plain
    BY <1>0, <2>0 DEF Plain
  <2> DEFINE x == <<tag>>
             y == <<lo + Base>>
             z == <<hi>>
  <2> HIDE DEF n, w, x, y, z
  <2>4. x \in Plain /\ y \in Plain /\ z \in Plain /\ w = <<x>> \o <<y, z>> \o val /\ n = Len(val)
    BY <1>0, <2>2, <2>3 DEF x, y, z, n
  <2>5. <<x>> \in Seq(Plain) /\ <<y, z>> \in Seq(Plain)
    BY <2>4
  <2>6. /\ w \in Seq(Plain) /\ Len(w) = 3 + n /\ w[1] = x /\ w[2] = y /\ w[3] = z
        /\ \A j \in 1 .. n : w[3 + j] = val[j]
    BY <2>4, <2>5
  <2>7. \E a, b \in Nat : w[2] = <<a + Base>> /\ w[3] = <<b>> /\ a + Base * b = n
    BY <2>0, <2>6 DEF y, z
  <2> QED
    BY <1>2, <2>1, <2>6, <2>7 DEF x, n, w
<1> QED
  BY <1>1, <1>2

\* One step of read_tlvs at byte i; r is what the rest is read as.
Broken(p, i) == NoHeader(p, i) \/ After(p, i) - 1 > Len(p)
Body(p, i, r) ==
  IF i > Len(p) THEN [ok |-> TRUE, tlvs |-> <<>>]
  ELSE IF NoHeader(p, i) \/ After(p, i) - 1 > Len(p) THEN Malformed
  ELSE [ok |-> r.ok, tlvs |-> <<TlvAt(p, i)>> \o r.tlvs]

\* The function in read_tlvs.
ReadAt(p) == CHOOSE at : at = [i \in 1 .. Len(p) + 1 |-> Body(p, i, at[After(p, i)])]

\* A TLV that is not broken ends within the payload, after its beginning.
LEMMA AfterIsLater ==
  ASSUME NEW p \in Seq(Plain), NEW i \in 1 .. Len(p), ~Broken(p, i)
  PROVE  After(p, i) \in i + 1 .. Len(p) + 1
<1>0. Len(p) \in Nat /\ Base \in Nat
  BY WireAssumption
<1>1. i + 1 \in 1 .. Len(p)
  BY <1>0 DEF Broken, NoHeader
<1>2. p[i + 1][1] \in Nat
  BY <1>1 DEF Plain
<1>3. CASE Long(p, i)
  <2>1. i + 2 \in 1 .. Len(p)
    BY <1>0, <1>3 DEF Broken, NoHeader
  <2>2. p[i + 2][1] \in Nat
    BY <2>1 DEF Plain
  <2>3. p[i + 1][1] - Base \in Nat /\ Base * p[i + 2][1] \in Nat
    BY <1>0, <1>2, <1>3, <2>2 DEF Long
  <2>4. LenAt(p, i) \in Nat /\ FromAt(p, i) = i + 3
    BY <1>3, <2>3 DEF LenAt, FromAt
  <2> QED
    BY <1>0, <2>4 DEF After, Broken, NoHeader
<1>4. CASE ~Long(p, i)
  <2>1. LenAt(p, i) \in Nat /\ FromAt(p, i) = i + 2
    BY <1>2, <1>4 DEF LenAt, FromAt
  <2> QED
    BY <1>0, <2>1 DEF After, Broken, NoHeader
<1> QED
  BY <1>3, <1>4

\* The end and a broken TLV do not depend on what follows.
LEMMA BodyStops ==
  ASSUME NEW p, NEW i, i > Len(p) \/ Broken(p, i), NEW r, NEW s
  PROVE  Body(p, i, r) = Body(p, i, s)
  BY DEF Body, Broken

\* The recursive function in read_tlvs exists: every TLV ends after it begins.
LEMMA ReadAtDef ==
  ASSUME NEW p \in Seq(Plain)
  PROVE  /\ ReadAt(p) = [i \in 1 .. Len(p) + 1 |-> Body(p, i, ReadAt(p)[After(p, i)])]
         /\ read_tlvs(p) = ReadAt(p)[1]
<1> DEFINE n == Len(p)
           Is(N, t) == t = [i \in (n + 1) - N .. n + 1 |-> Body(p, i, t[After(p, i)])]
           S == {N \in Nat : N <= n => \E t : Is(N, t)}
<1>0. n \in Nat
  OBVIOUS
<1>1. 0 \in S
  <2> DEFINE t == [i \in (n + 1) - 0 .. n + 1 |-> Body(p, i, 0)]
  <2>1. ASSUME NEW i \in (n + 1) - 0 .. n + 1
        PROVE  t[i] = Body(p, i, t[After(p, i)])
    <3>1. i > Len(p) /\ t[i] = Body(p, i, 0)
      BY <1>0
    <3> HIDE DEF t
    <3> QED
      BY <3>1, BodyStops
  <2>2. Is(0, t)
    BY <2>1
  <2> HIDE DEF t, Is
  <2> QED
    BY <2>2
<1>2. ASSUME NEW N \in Nat, N \in S PROVE N + 1 \in S
  <2> SUFFICES ASSUME N + 1 <= n PROVE \E t : Is(N + 1, t)
    <3> HIDE DEF Is
    <3> QED
      OBVIOUS
  <2>1. \E t : Is(N, t)
    <3> HIDE DEF Is
    <3> QED
      BY <1>0, <1>2
  <2>2. PICK t : Is(N, t)
    BY <2>1
  <2> DEFINE m == (n + 1) - (N + 1)
             u == [i \in m .. n + 1 |-> IF i = m THEN Body(p, m, t[After(p, m)]) ELSE t[i]]
  <2>3. m \in 1 .. n /\ (n + 1) - N = m + 1
    BY <1>0
  <2>4. \A i \in m + 1 .. n + 1 : t[i] = Body(p, i, t[After(p, i)])
    BY <2>2, <2>3
  <2> HIDE DEF m
  <2>5. u[m] = Body(p, m, t[After(p, m)]) /\ \A i \in m + 1 .. n + 1 : u[i] = t[i]
    BY <1>0, <2>3
  <2>6. ASSUME NEW i \in m .. n + 1 PROVE u[i] = Body(p, i, u[After(p, i)])
    <3>1. u[i] = Body(p, i, t[After(p, i)])
      <4>1. i = m \/ i \in m + 1 .. n + 1
        BY <1>0, <2>3
      <4> HIDE DEF u
      <4> QED
        BY <2>4, <2>5, <4>1
    <3>2. CASE i > Len(p) \/ Broken(p, i)
      <4> HIDE DEF u
      <4> QED
        BY <3>1, <3>2, BodyStops
    <3>3. CASE ~(i > Len(p) \/ Broken(p, i))
      <4>1. i \in 1 .. Len(p)
        BY <1>0, <2>3, <3>3
      <4>2. After(p, i) \in i + 1 .. Len(p) + 1
        BY <3>3, <4>1, AfterIsLater
      <4>3. After(p, i) \in m + 1 .. n + 1
        BY <1>0, <2>3, <4>1, <4>2
      <4> HIDE DEF u
      <4>4. u[After(p, i)] = t[After(p, i)]
        BY <2>5, <4>3
      <4> QED
        BY <3>1, <4>4
    <3> QED
      BY <3>2, <3>3
  <2>7. u = [i \in m .. n + 1 |-> Body(p, i, u[After(p, i)])]
    <3>1. u = [i \in m .. n + 1 |-> u[i]]
      OBVIOUS
    <3> HIDE DEF u
    <3> QED
      BY <2>6, <3>1
  <2> HIDE DEF u
  <2>8. Is(N + 1, u)
    BY <2>7 DEF m
  <2> HIDE DEF Is
  <2> QED
    BY <2>8
<1>3. Nat \subseteq S
  <2> HIDE DEF S
  <2> QED
    BY <1>1, <1>2, NatSetInduction
<1>4. \E t : Is(n, t)
  <2>1. n \in S
    <3> HIDE DEF S
    <3> QED
      BY <1>0, <1>3
  <2> HIDE DEF Is
  <2> QED
    BY <1>0, <2>1
<1>5. (n + 1) - n = 1
  BY <1>0
<1>6. \E t : t = [i \in 1 .. Len(p) + 1 |-> Body(p, i, t[After(p, i)])]
  BY <1>4, <1>5
<1>7. ReadAt(p) = [i \in 1 .. Len(p) + 1 |-> Body(p, i, ReadAt(p)[After(p, i)])]
  BY <1>6 DEF ReadAt
<1>8. read_tlvs(p) = ReadAt(p)[1]
  BY DEF read_tlvs, ReadAt, Body
<1> QED
  BY <1>7, <1>8

\* The bytes of w are in p, from byte i on.
Holds(p, i, w) ==
  i + Len(w) <= Len(p) + 1 /\ \A j \in 1 .. Len(w) : p[(i - 1) + j] = w[j]

\* A TLV that was written at byte i is read there.
LEMMA ReadOne ==
  ASSUME NEW p \in Seq(Plain), NEW i \in 1 .. Len(p),
         NEW tag \in Nat, NEW val \in Seq(Plain), Len(val) < LengthCap,
         NEW w, w = write_tlv(tag, val), Holds(p, i, w)
  PROVE  /\ After(p, i) = i + Len(w) /\ ~Broken(p, i)
         /\ TlvAt(p, i) = [tag |-> tag, val |-> val]
<1> DEFINE h == Head2(val)
<1>h. i + Len(w) <= Len(p) + 1 /\ \A j \in 1 .. Len(w) : p[(i - 1) + j] = w[j]
  BY DEF Holds
<1>0. /\ Len(p) \in Nat /\ Base \in Nat /\ Len(val) \in Nat /\ h \in {2, 3}
      /\ (h = 2 <=> Len(val) < Base)
  BY WireAssumption DEF Head2
<1>1. /\ w \in Seq(Plain) /\ Len(w) = h + Len(val) /\ w[1] = <<tag>>
      /\ \A j \in 1 .. Len(val) : w[h + j] = val[j]
      /\ Len(val) < Base => w[2] = <<Len(val)>>
      /\ ~(Len(val) < Base) =>
           \E lo, hi \in Nat : /\ w[2] = <<lo + Base>> /\ w[3] = <<hi>>
                               /\ lo + Base * hi = Len(val)
  BY WriteIs
<1> HIDE DEF h
<1>2. p[i] = <<tag>> /\ p[i + 1] = w[2]
  <2>1. 1 \in 1 .. Len(w) /\ 2 \in 1 .. Len(w) /\ (i - 1) + 1 = i /\ (i - 1) + 2 = i + 1
    BY <1>0, <1>1
  <2> QED
    BY <1>h, <1>1, <2>1
<1>3. h = 3 => p[i + 2] = w[3]
  <2>1. h = 3 => 3 \in 1 .. Len(w) /\ (i - 1) + 3 = i + 2
    BY <1>0, <1>1
  <2> QED
    BY <1>h, <2>1
<1>4. LenAt(p, i) = Len(val) /\ FromAt(p, i) = i + h /\ (Long(p, i) <=> h = 3)
  <2>1. CASE Len(val) < Base
    <3>1. p[i + 1][1] = Len(val) /\ h = 2
      BY <1>0, <1>1, <1>2, <2>1
    <3>2. ~Long(p, i)
      BY <1>0, <2>1, <3>1 DEF Long
    <3> QED
      BY <3>1, <3>2 DEF LenAt, FromAt
  <2>2. CASE ~(Len(val) < Base)
    <3>1. PICK lo, hi \in Nat : w[2] = <<lo + Base>> /\ w[3] = <<hi>> /\ lo + Base * hi = Len(val)
      BY <1>1, <2>2
    <3>2. p[i + 1][1] = lo + Base /\ p[i + 2][1] = hi /\ h = 3
      BY <1>0, <1>2, <1>3, <2>2, <3>1
    <3>3. Long(p, i)
      BY <1>0, <3>2 DEF Long
    <3>4. (lo + Base) - Base + Base * hi = Len(val)
      BY <1>0, <3>1
    <3> QED
      BY <3>2, <3>3, <3>4 DEF LenAt, FromAt
  <2> QED
    BY <2>1, <2>2
<1>5. After(p, i) = i + Len(w)
  BY <1>0, <1>1, <1>4 DEF After
<1>6. ~Broken(p, i)
  BY <1>h, <1>0, <1>1, <1>4, <1>5 DEF Broken, NoHeader
<1>7. SubSeq(p, FromAt(p, i), After(p, i) - 1) = val
  <2> DEFINE a == i + h
             b == i + Len(w) - 1
             s == SubSeq(p, a, b)
  <2>1. a \in Int /\ b \in Int /\ b - a + 1 = Len(val) /\ a >= 1 /\ b <= Len(p)
    BY <1>h, <1>0, <1>1
  <2>2. \A j \in a .. b : p[j] \in Plain
    BY <1>0, <2>1
  <2> HIDE DEF a, b
  <2>3. /\ s \in Seq(Plain) /\ Len(s) = IF a <= b THEN b - a + 1 ELSE 0
        /\ \A j \in 1 .. b - a + 1 : s[j] = p[a + j - 1]
    BY <2>1, <2>2, SubSeqProperties
  <2> HIDE DEF s
  <2>4. Len(s) = Len(val)
    BY <1>0, <2>1, <2>3
  <2>5. ASSUME NEW j \in 1 .. Len(val) PROVE s[j] = val[j]
    <3>1. s[j] = p[a + j - 1]
      BY <2>1, <2>3
    <3>2. a + j - 1 = (i - 1) + (h + j) /\ h + j \in 1 .. Len(w)
      BY <1>0, <1>1 DEF a
    <3>3. p[(i - 1) + (h + j)] = w[h + j]
      BY <1>h, <3>2
    <3> QED
      BY <1>1, <3>1, <3>2, <3>3
  <2>6. s = val
    BY <2>3, <2>4, <2>5, SeqEqual
  <2> QED
    BY <1>4, <1>5, <2>6 DEF s, a, b
<1>8. TlvAt(p, i) = [tag |-> tag, val |-> val]
  <2>1. p[i][1] = tag
    BY <1>2
  <2> QED
    BY <1>7, <2>1 DEF TlvAt
<1> QED
  BY <1>5, <1>6, <1>8

\* TLVs that can be written: a tag and bytes, not too many.
IsTlvs(ts) ==
  /\ ts \in Seq(Range(ts))
  /\ \A i \in DOMAIN ts :
       /\ ts[i] = [tag |-> ts[i].tag, val |-> ts[i].val] /\ ts[i].tag \in Nat
       /\ ts[i].val \in Seq(Plain) /\ Len(ts[i].val) < LengthCap

Written(ts) == [i \in DOMAIN ts |-> write_tlv(ts[i].tag, ts[i].val)]

\* TLVs that are written are plain bytes.
LEMMA WrittenAre ==
  ASSUME NEW ts, IsTlvs(ts)
  PROVE  /\ Written(ts) \in Seq(Seq(Plain)) /\ Len(Written(ts)) = Len(ts) /\ Len(ts) \in Nat
         /\ DOMAIN ts = 1 .. Len(ts)
         /\ FlattenSeq(Written(ts)) \in Seq(Plain)
<1>1. Len(ts) \in Nat /\ DOMAIN ts = 1 .. Len(ts)
  BY DEF IsTlvs
<1>2. \A i \in 1 .. Len(ts) : write_tlv(ts[i].tag, ts[i].val) \in Seq(Plain)
  BY <1>1, WriteIs DEF IsTlvs
<1>3. Written(ts) = [i \in 1 .. Len(ts) |-> write_tlv(ts[i].tag, ts[i].val)]
  BY <1>1 DEF Written
<1>4. Written(ts) \in Seq(Seq(Plain)) /\ Len(Written(ts)) = Len(ts)
  BY <1>1, <1>2, <1>3
<1>5. FlattenSeq(Written(ts)) \in Seq(Plain)
  BY <1>4, StreamIsPieces
<1> QED
  BY <1>1, <1>4, <1>5

\* The codec loses nothing: hdhr_pkt_read_tlv gives back the tags and values that
\* hdhr_pkt_write_tlv wrote, in their order, whatever their number and lengths on
\* both sides of the second length byte.
THEOREM CodecRoundTrip ==
  ASSUME NEW ts, IsTlvs(ts)
  PROVE  read_tlvs(FlattenSeq(Written(ts))) = [ok |-> TRUE, tlvs |-> ts]
<1> DEFINE fr == Written(ts)
           p == FlattenSeq(fr)
           L == Len(ts)
           at == ReadAt(p)
<1>0. fr \in Seq(Seq(Plain)) /\ Len(fr) = L /\ L \in Nat /\ DOMAIN ts = 1 .. L
      /\ ts \in Seq(Range(ts))
  BY WrittenAre DEF IsTlvs
<1>1. /\ p \in Seq(Plain)
      /\ Off(fr, 0) = 0 /\ Off(fr, L) = Len(p)
      /\ \A n \in 0 .. L : Off(fr, n) \in Nat /\ Off(fr, n) <= Len(p)
      /\ \A n \in 1 .. L :
           /\ Off(fr, n) = Off(fr, n - 1) + Len(fr[n])
           /\ \A j \in 1 .. Len(fr[n]) : p[Off(fr, n - 1) + j] = fr[n][j]
  BY <1>0, StreamIsPieces
<1>2. \A n \in 1 .. L : fr[n] = write_tlv(ts[n].tag, ts[n].val)
  BY <1>0 DEF Written
<1> HIDE DEF fr, p, L
<1>3. /\ at = [i \in 1 .. Len(p) + 1 |-> Body(p, i, at[After(p, i)])]
      /\ read_tlvs(p) = at[1]
  BY <1>1, ReadAtDef
<1> HIDE DEF at
<1>r. \A i \in 1 .. Len(p) + 1 : at[i] = Body(p, i, at[After(p, i)])
  BY <1>3
<1> DEFINE I == {k \in Nat : k <= L =>
                   at[Off(fr, L - k) + 1] = [ok |-> TRUE, tlvs |-> SubSeq(ts, (L - k) + 1, L)]}
<1>4. 0 \in I
  <2>1. L - 0 = L /\ Len(p) \in Nat /\ Len(p) + 1 \in 1 .. Len(p) + 1 /\ Len(p) + 1 > Len(p)
    BY <1>0, <1>1
  <2>2. at[Len(p) + 1] = [ok |-> TRUE, tlvs |-> <<>>]
    BY <1>r, <2>1 DEF Body
  <2>3. SubSeq(ts, L + 1, L) = <<>>
    BY <1>0, SubSeqEmpty
  <2> QED
    BY <1>1, <2>1, <2>2, <2>3
<1>5. ASSUME NEW k \in Nat, k \in I PROVE k + 1 \in I
  <2> SUFFICES ASSUME k + 1 <= L
               PROVE  at[Off(fr, L - (k + 1)) + 1]
                        = [ok |-> TRUE, tlvs |-> SubSeq(ts, (L - (k + 1)) + 1, L)]
    OBVIOUS
  <2> DEFINE m == L - k
             i == Off(fr, m - 1) + 1
             w == fr[m]
  <2>1. m \in 1 .. L /\ L - (k + 1) = m - 1 /\ (m - 1) + 1 = m /\ m - 1 \in 0 .. L /\ m \in 0 .. L
    BY <1>0
  <2>2. at[Off(fr, m) + 1] = [ok |-> TRUE, tlvs |-> SubSeq(ts, m + 1, L)]
    BY <1>0, <1>5
  <2> HIDE DEF m
  <2>3. ts[m] = [tag |-> ts[m].tag, val |-> ts[m].val] /\ ts[m].tag \in Nat
        /\ ts[m].val \in Seq(Plain) /\ Len(ts[m].val) < LengthCap
    BY <1>0, <2>1 DEF IsTlvs
  <2>4. w = write_tlv(ts[m].tag, ts[m].val)
    BY <1>2, <2>1
  <2>5. w \in Seq(Plain) /\ Len(w) \in Nat /\ Len(w) >= 2
    <3>1. w \in Seq(Plain) /\ Len(w) = Head2(ts[m].val) + Len(ts[m].val)
      BY <2>3, <2>4, WriteIs
    <3>2. Len(ts[m].val) \in Nat /\ Head2(ts[m].val) \in {2, 3}
      BY <2>3 DEF Head2
    <3> QED
      BY <3>1, <3>2
  <2>6. /\ Off(fr, m) \in Nat /\ Off(fr, m - 1) \in Nat /\ Off(fr, m) <= Len(p)
        /\ Off(fr, m) = Off(fr, m - 1) + Len(w)
        /\ \A j \in 1 .. Len(w) : p[Off(fr, m - 1) + j] = w[j]
    BY <1>1, <2>1
  <2>7. /\ i \in 1 .. Len(p) /\ i \in 1 .. Len(p) + 1 /\ i + Len(w) = Off(fr, m) + 1
        /\ i + Len(w) <= Len(p) + 1 /\ i - 1 = Off(fr, m - 1) /\ ~(i > Len(p))
    <3>1. Len(p) \in Nat
      BY <1>1
    <3> DEFINE a == Off(fr, m - 1)
               b == Off(fr, m)
               x == Len(w)
               y == Len(p)
    <3>2. x \in Nat /\ x >= 2 /\ a \in Nat /\ b = a + x /\ b <= y /\ y \in Nat /\ i = a + 1
      BY <2>5, <2>6, <3>1
    <3> HIDE DEF a, b, x, y, i
    <3>3. /\ i \in 1 .. y /\ i \in 1 .. y + 1 /\ i + x = b + 1
          /\ i + x <= y + 1 /\ i - 1 = a /\ ~(i > y)
      BY <3>2
    <3> QED
      BY <3>3 DEF a, b, x, y
  <2> HIDE DEF i, w
  <2>8. After(p, i) = Off(fr, m) + 1 /\ ~Broken(p, i) /\ TlvAt(p, i) = ts[m]
    <3>1. \A j \in 1 .. Len(w) : p[(i - 1) + j] = w[j]
      BY <2>6, <2>7
    <3>2. p \in Seq(Plain) /\ i \in 1 .. Len(p) /\ Holds(p, i, w)
      BY <1>1, <2>7, <3>1 DEF Holds
    <3> DEFINE tag == ts[m].tag
               val == ts[m].val
    <3>3. tag \in Nat /\ val \in Seq(Plain) /\ Len(val) < LengthCap /\ w = write_tlv(tag, val)
      BY <2>3, <2>4
    <3> HIDE DEF tag, val
    <3>4. After(p, i) = i + Len(w)
      BY <3>2, <3>3, ReadOne, ZenonT(60)
    <3>5. ~Broken(p, i)
      BY <3>2, <3>3, ReadOne
    <3>6. TlvAt(p, i) = [tag |-> tag, val |-> val]
      BY <3>2, <3>3, ReadOne
    <3> QED
      BY <2>3, <2>7, <3>4, <3>5, <3>6 DEF tag, val
  <2>9. at[i] = [ok |-> at[Off(fr, m) + 1].ok, tlvs |-> <<ts[m]>> \o at[Off(fr, m) + 1].tlvs]
    <3>1. at[i] = Body(p, i, at[Off(fr, m) + 1])
      BY <1>r, <2>7, <2>8
    <3>2. \A r : Body(p, i, r) = [ok |-> r.ok, tlvs |-> <<TlvAt(p, i)>> \o r.tlvs]
      BY <2>7, <2>8 DEF Body, Broken
    <3> QED
      BY <2>8, <3>1, <3>2
  <2>10. at[i] = [ok |-> TRUE, tlvs |-> <<ts[m]>> \o SubSeq(ts, m + 1, L)]
    BY <2>2, <2>9
  <2>11. <<ts[m]>> \o SubSeq(ts, m + 1, L) = SubSeq(ts, m, L)
    <3>1. Len(ts) \in m .. Len(ts) /\ m \in 1 .. Len(ts)
      BY <1>0, <2>1 DEF L
    <3>2. SubSeq(ts, m, Len(ts)) = <<ts[m]>> \o SubSeq(ts, m + 1, Len(ts))
      BY <1>0, <3>1, SubSeqRecursiveFirst
    <3> QED
      BY <3>2 DEF L
  <2> QED
    BY <2>1, <2>10, <2>11 DEF i
<1>6. Nat \subseteq I
  <2> HIDE DEF I
  <2> QED
    BY <1>4, <1>5, NatSetInduction
<1>7. at[Off(fr, L - L) + 1] = [ok |-> TRUE, tlvs |-> SubSeq(ts, (L - L) + 1, L)]
  <2>1. L \in I
    <3> HIDE DEF I
    <3> QED
      BY <1>0, <1>6
  <2> QED
    BY <1>0, <2>1
<1>8. L - L = 0 /\ SubSeq(ts, 1, L) = ts
  BY <1>0, SubSeqFull DEF L
<1>9. at[1] = [ok |-> TRUE, tlvs |-> ts]
  <2>1. Off(fr, L - L) + 1 = 1 /\ (L - L) + 1 = 1
    BY <1>1, <1>8
  <2> QED
    BY <1>7, <1>8, <2>1
<1> QED
  BY <1>3, <1>9 DEF p, fr

\* A payload that lacks the last byte of its TLV is malformed.
LEMMA ReadShort ==
  ASSUME NEW tag \in Nat, NEW val \in Seq(Plain), Len(val) < LengthCap, val # <<>>
  PROVE  read_tlvs(Front(write_tlv(tag, val))).ok = FALSE
<1> DEFINE w == write_tlv(tag, val)
           p == Front(w)
           h == Head2(val)
<1>0. /\ Base \in Nat \ {0, 1} /\ Len(val) \in Nat \ {0} /\ h \in {2, 3}
      /\ (h = 2 <=> Len(val) < Base)
  BY WireAssumption DEF Head2
<1>1. /\ w \in Seq(Plain) /\ Len(w) = h + Len(val)
      /\ Len(val) < Base => w[2] = <<Len(val)>>
      /\ ~(Len(val) < Base) =>
           \E lo, hi \in Nat : /\ w[2] = <<lo + Base>> /\ w[3] = <<hi>>
                               /\ lo + Base * hi = Len(val)
  BY WriteIs
<1> HIDE DEF h, w
<1>2. /\ p \in Seq(Plain) /\ Len(p) = Len(w) - 1
      /\ \A j \in 1 .. Len(w) - 1 : p[j] = w[j]
  <2>1. Len(w) \in Nat /\ Len(w) >= 3
    BY <1>0, <1>1
  <2> QED
    BY <1>1, <2>1 DEF Front
<1> HIDE DEF p
<1>3. Len(p) \in Nat /\ Len(p) >= 2 /\ (h = 3 => Len(p) >= 3) /\ 1 \in 1 .. Len(p) + 1 /\ ~(1 > Len(p))
  BY <1>0, <1>1, <1>2
<1>4. p[2] = w[2] /\ (h = 3 => p[3] = w[3])
  BY <1>0, <1>1, <1>2
<1>5. LenAt(p, 1) = Len(val) /\ FromAt(p, 1) = 1 + h
  <2>1. CASE Len(val) < Base
    <3>1. p[1 + 1][1] = Len(val) /\ h = 2
      BY <1>0, <1>1, <1>4, <2>1
    <3>2. ~Long(p, 1)
      BY <1>0, <2>1, <3>1 DEF Long
    <3> QED
      BY <3>1, <3>2 DEF LenAt, FromAt
  <2>2. CASE ~(Len(val) < Base)
    <3>1. PICK lo, hi \in Nat : w[2] = <<lo + Base>> /\ w[3] = <<hi>> /\ lo + Base * hi = Len(val)
      BY <1>1, <2>2
    <3>2. p[1 + 1][1] = lo + Base /\ p[1 + 2][1] = hi /\ h = 3
      BY <1>0, <1>4, <2>2, <3>1
    <3>3. Long(p, 1)
      BY <1>0, <3>2 DEF Long
    <3>4. (lo + Base) - Base + Base * hi = Len(val)
      BY <1>0, <3>1
    <3> QED
      BY <3>2, <3>3, <3>4 DEF LenAt, FromAt
  <2> QED
    BY <2>1, <2>2
<1>6. After(p, 1) - 1 > Len(p)
  BY <1>0, <1>1, <1>2, <1>5 DEF After
<1>7. read_tlvs(p) = Body(p, 1, ReadAt(p)[After(p, 1)])
  BY <1>2, <1>3, ReadAtDef
<1>8. read_tlvs(p) = Malformed
  BY <1>3, <1>6, <1>7 DEF Body
<1> QED
  BY <1>8 DEF Malformed, p, w

-----------------------------------------------------------------------------
(* The checksum of the device id *)

Nibble(d, n) == IF n % 2 = 1 THEN Lut(d[n]) ELSE d[n]
Sums(d, k) ==
  CHOOSE t : t = [n \in 0 .. k |->
    IF n = 0 THEN 0 ELSE Xor(t[n - 1], IF n % 2 = 1 THEN Lut(d[n]) ELSE d[n])]

\* The recursive function in Checksum exists.
LEMMA SumsDef ==
  ASSUME NEW d, NEW k \in Nat
  PROVE  /\ Sums(d, k)[0] = 0
         /\ \A n \in 1 .. k : Sums(d, k)[n] = Xor(Sums(d, k)[n - 1], Nibble(d, n))
         /\ Checksum(d, k) = Sums(d, k)[k]
<1> DEFINE Is(N, t) == t = [n \in 0 .. N |-> IF n = 0 THEN 0 ELSE Xor(t[n - 1], Nibble(d, n))]
           S == {N \in Nat : \E t : Is(N, t)}
<1>1. 0 \in S
  <2>1. Is(0, [n \in 0 .. 0 |-> 0])
    OBVIOUS
  <2> HIDE DEF Is
  <2> QED
    BY <2>1
<1>2. ASSUME NEW N \in Nat, N \in S PROVE N + 1 \in S
  <2>1. PICK t : Is(N, t)
    BY <1>2
  <2> DEFINE u == [n \in 0 .. N + 1 |-> IF n = N + 1 THEN Xor(t[N], Nibble(d, N + 1)) ELSE t[n]]
  <2>2. ASSUME NEW n \in 0 .. N + 1
        PROVE  u[n] = IF n = 0 THEN 0 ELSE Xor(u[n - 1], Nibble(d, n))
    <3>1. CASE n = N + 1
      <4>1. n # 0 /\ n - 1 \in 0 .. N + 1 /\ n - 1 # N + 1 /\ n - 1 = N
        BY <3>1
      <4>2. u[n - 1] = t[N] /\ u[n] = Xor(t[N], Nibble(d, n))
        BY <3>1, <4>1
      <4> HIDE DEF u
      <4> QED
        BY <4>1, <4>2
    <3>2. CASE n # N + 1
      <4>1. n \in 0 .. N /\ (n # 0 => n - 1 \in 0 .. N + 1 /\ n - 1 # N + 1)
        BY <3>2
      <4>2. t[n] = IF n = 0 THEN 0 ELSE Xor(t[n - 1], Nibble(d, n))
        BY <2>1, <4>1
      <4>3. u[n] = t[n] /\ (n # 0 => u[n - 1] = t[n - 1])
        BY <3>2, <4>1
      <4> HIDE DEF u
      <4> QED
        BY <4>2, <4>3
    <3> QED
      BY <3>1, <3>2
  <2>3. Is(N + 1, u)
    BY <2>2
  <2> HIDE DEF u, Is
  <2> QED
    BY <2>3
<1>3. Nat \subseteq S
  <2> HIDE DEF S
  <2> QED
    BY <1>1, <1>2, NatSetInduction
<1>4. \E t : Is(k, t)
  <2>1. k \in S
    <3> HIDE DEF S
    <3> QED
      BY <1>3
  <2> HIDE DEF Is
  <2> QED
    BY <2>1
<1>5. Sums(d, k) = [n \in 0 .. k |-> IF n = 0 THEN 0 ELSE Xor(Sums(d, k)[n - 1], Nibble(d, n))]
  BY <1>4 DEF Sums, Nibble
<1>6. Checksum(d, k) = Sums(d, k)[k]
  BY DEF Checksum, Sums
<1>7. Sums(d, k)[0] = 0
  BY <1>5
<1>8. ASSUME NEW n \in 1 .. k PROVE Sums(d, k)[n] = Xor(Sums(d, k)[n - 1], Nibble(d, n))
  <2>1. n \in 0 .. k /\ n # 0
    OBVIOUS
  <2> QED
    BY <1>5, <2>1
<1> QED
  BY <1>6, <1>7, <1>8

\* The exclusive or of numbers is a number.
LEMMA XorIsNat ==
  ASSUME NEW a \in Nat, NEW b \in Nat
  PROVE  Xor(a, b) \in Nat /\ Xor(a, a) = 0
  BY DEF Xor

\* Checksums of as many nibbles agree if the nibbles do.
Alike(d, e, m) == \A n \in 1 .. m : d[n] = e[n] /\ d[n] \in Nibbles

\* A checksum depends only on the nibbles it covers.
LEMMA SumsAgree ==
  ASSUME NEW d, NEW e, NEW k \in Nat, NEW l \in Nat, NEW m \in Nat, m <= k, m <= l,
         Alike(d, e, m)
  PROVE  Sums(d, k)[m] = Sums(e, l)[m] /\ Sums(d, k)[m] \in Nat
<1>1. /\ Sums(d, k)[0] = 0
      /\ \A n \in 1 .. k : Sums(d, k)[n] = Xor(Sums(d, k)[n - 1], Nibble(d, n))
  BY SumsDef
<1>2. /\ Sums(e, l)[0] = 0
      /\ \A n \in 1 .. l : Sums(e, l)[n] = Xor(Sums(e, l)[n - 1], Nibble(e, n))
  BY SumsDef
<1>l. \A x \in Nibbles : Lut(x) \in Nat /\ x \in Nat
  BY DEF Lut, nibble_lut, Nibbles
<1>3. ASSUME NEW n \in 1 .. m PROVE Nibble(d, n) = Nibble(e, n) /\ Nibble(d, n) \in Nat
  BY <1>l DEF Nibble, Alike
<1> DEFINE I == {n \in Nat : n <= m => Sums(d, k)[n] = Sums(e, l)[n] /\ Sums(d, k)[n] \in Nat}
<1>4. 0 \in I
  BY <1>1, <1>2
<1>5. ASSUME NEW n \in Nat, n \in I PROVE n + 1 \in I
  <2> SUFFICES ASSUME n + 1 <= m
               PROVE  Sums(d, k)[n + 1] = Sums(e, l)[n + 1] /\ Sums(d, k)[n + 1] \in Nat
    OBVIOUS
  <2>1. Sums(d, k)[n] = Sums(e, l)[n] /\ Sums(d, k)[n] \in Nat
    BY <1>5
  <2>2. n + 1 \in 1 .. m /\ n + 1 \in 1 .. k /\ n + 1 \in 1 .. l /\ (n + 1) - 1 = n
    OBVIOUS
  <2>3. /\ Sums(d, k)[n + 1] = Xor(Sums(d, k)[n], Nibble(d, n + 1))
        /\ Sums(e, l)[n + 1] = Xor(Sums(e, l)[n], Nibble(e, n + 1))
    BY <1>1, <1>2, <2>2
  <2> QED
    BY <1>3, <2>1, <2>2, <2>3, XorIsNat
<1>6. Nat \subseteq I
  <2> HIDE DEF I
  <2> QED
    BY <1>4, <1>5, NatSetInduction
<1>7. m \in I
  <2> HIDE DEF I
  <2> QED
    BY <1>6
<1> QED
  BY <1>7

\* A checksum put at an even place makes the whole zero.
LEMMA ChecksumCloses ==
  ASSUME NEW k \in Nat, k % 2 = 1, NEW s, NEW d, Alike(s, d, k), d[k + 1] = Checksum(s, k)
  PROVE  Checksum(d, k + 1) = 0
<1> DEFINE x == Checksum(s, k)
           l == k + 1
<1>1. l \in Nat /\ k <= l /\ k <= k /\ l \in 1 .. l /\ l - 1 = k
  OBVIOUS
<1>2. d[l] = x /\ l % 2 # 1
  OBVIOUS
<1> HIDE DEF l
<1>3. x = Sums(s, k)[k]
  BY SumsDef
<1>4. Sums(s, k)[k] = Sums(d, l)[k]
  BY <1>1, SumsAgree
<1>5. Sums(s, k)[k] \in Nat
  BY <1>1, SumsAgree
<1>6. Checksum(d, l) = Sums(d, l)[l] /\ Sums(d, l)[l] = Xor(Sums(d, l)[l - 1], Nibble(d, l))
  BY <1>1, SumsDef
<1> HIDE DEF x
<1>7. Nibble(d, l) = x
  BY <1>2 DEF Nibble
<1>8. Checksum(d, l) = Xor(x, x)
  BY <1>1, <1>3, <1>4, <1>6, <1>7
<1>9. Checksum(d, l) = 0
  BY <1>3, <1>5, <1>8, XorIsNat
<1> QED
  BY <1>9 DEF l

\* A nibble before a sequence of nibbles.
LEMMA Prepend ==
  ASSUME NEW S, NEW a \in S, NEW s \in Seq(S)
  PROVE  <<a>> \o s \in Seq(S) /\ Len(<<a>> \o s) = 1 + Len(s)
<1>1. <<a>> \in Seq(S) /\ Len(<<a>>) = 1
  OBVIOUS
<1> QED
  BY <1>1

\* A nibble after a sequence of nibbles.
LEMMA AppendIs ==
  ASSUME NEW S, NEW s \in Seq(S), NEW x
  PROVE  /\ Len(Append(s, x)) = Len(s) + 1 /\ Append(s, x)[Len(s) + 1] = x
         /\ \A n \in 1 .. Len(s) : Append(s, x)[n] = s[n] /\ s[n] \in S
<1>1. s \in Seq(S \cup {x}) /\ x \in S \cup {x}
  BY SeqMonotonic
<1> QED
  BY <1>1, AppendProperties

\* Appending leaves the nibbles before it.
LEMMA AlikeAppend ==
  ASSUME NEW s \in Seq(Nibbles), NEW x
  PROVE  Alike(s, Append(s, x), Len(s)) /\ Append(s, x)[Len(s) + 1] = x
  BY AppendIs DEF Alike

\* Every device id the daemon generates passes the clients' checksum
\* (hdhr_device_id_generate, hdhr_device_id_is_valid).
THEOREM GeneratedIdIsValid ==
  \A seed \in Seq(Nibbles) :
    Len(seed) = 6 => hdhr_device_id_is_valid(hdhr_device_id_generate(seed))
<1> SUFFICES ASSUME NEW seed \in Seq(Nibbles), Len(seed) = 6
             PROVE  hdhr_device_id_is_valid(hdhr_device_id_generate(seed))
  OBVIOUS
<1> DEFINE s == <<1>> \o seed
<1>1. s \in Seq(Nibbles) /\ Len(s) = 7
  <2>1. 1 \in Nibbles
    BY DEF Nibbles
  <2>2. <<1>> \o seed \in Seq(Nibbles) /\ Len(<<1>> \o seed) = 1 + Len(seed)
    BY <2>1, Prepend
  <2> QED
    BY <2>2
<1> HIDE DEF s
<1> DEFINE x == Checksum(s, 7)
           d == Append(s, x)
<1>2. Alike(s, d, Len(s)) /\ d[Len(s) + 1] = x
  BY <1>1, AlikeAppend
<1>3. 7 \in Nat /\ 7 % 2 = 1 /\ 7 + 1 = 8
  OBVIOUS
<1> HIDE DEF d
<1>4. Checksum(d, 7 + 1) = 0
  BY <1>1, <1>2, <1>3, ChecksumCloses
<1> QED
  BY <1>3, <1>4 DEF hdhr_device_id_is_valid, hdhr_device_id_generate, s, d

-----------------------------------------------------------------------------
(* Frames *)

Byte == Plain \cup {Crc(t) : t \in Seq(Plain)}

\* The part of a sealed frame that the CRC covers.
Covered(type, pl) == <<<<type>>, <<Len(pl)>>>> \o pl

\* The header and the payload that a CRC covers.
LEMMA CoveredIs ==
  ASSUME NEW type \in Nat, NEW pl \in Seq(Plain)
  PROVE  LET s == Covered(type, pl)
         IN  /\ s \in Seq(Plain) /\ Len(s) = Len(pl) + 2
             /\ s[1] = <<type>> /\ s[2] = <<Len(pl)>>
             /\ \A j \in 1 .. Len(pl) : s[2 + j] = pl[j]
<1> DEFINE x == <<type>>
           y == <<Len(pl)>>
           s == Covered(type, pl)
<1>1. x \in Plain /\ y \in Plain /\ s = <<x, y>> \o pl
  BY DEF Plain, Covered
<1> HIDE DEF x, y, s
<1>2. <<x, y>> \in Seq(Plain)
  BY <1>1
<1>3. /\ s \in Seq(Plain) /\ Len(s) = Len(pl) + 2 /\ s[1] = x /\ s[2] = y
      /\ \A j \in 1 .. Len(pl) : s[2 + j] = pl[j]
  BY <1>1, <1>2
<1> QED
  BY <1>3 DEF x, y, s

\* All but the last of what was appended to.
LEMMA FrontAppend ==
  ASSUME NEW S, NEW s \in Seq(S), NEW x
  PROVE  Front(Append(s, x)) = s
<1>1. s \in Seq(S \cup {x}) /\ x \in S \cup {x}
  BY SeqMonotonic
<1> HIDE DEF Front
<1>2. Append(s, x) \in Seq(S \cup {x}) /\ Len(Append(s, x)) - 1 = Len(s)
      /\ \A i \in 1 .. Len(s) : Append(s, x)[i] = s[i]
  BY <1>1, AppendProperties
<1>3. SubSeq(Append(s, x), 1, Len(s)) = s
  BY <1>1, <1>2
<1> QED
  BY <1>2, <1>3 DEF Front

\* What hdhr_pkt_seal_frame builds; hdhr_pkt_open_frame takes it and finds the payload.
LEMMA SealIs ==
  ASSUME NEW type \in Nat, NEW pl \in Seq(Plain)
  PROVE  LET f == seal_frame(type, pl)
         IN  /\ f \in Seq(Byte) /\ Len(f) = Len(pl) + 3 /\ Len(pl) \in Nat
             /\ f[1] = <<type>> /\ f[2] = <<Len(pl)>>
             /\ Front(f) = Covered(type, pl)
             /\ open_frame(f) /\ Payload(f) = pl
<1> DEFINE s == Covered(type, pl)
           f == seal_frame(type, pl)
           c == Crc(s)
<1>1. /\ s \in Seq(Plain) /\ Len(s) = Len(pl) + 2
      /\ s[1] = <<type>> /\ s[2] = <<Len(pl)>>
      /\ \A j \in 1 .. Len(pl) : s[2 + j] = pl[j]
  BY CoveredIs
<1>2. f = Append(s, c)
  BY DEF seal_frame, Covered
<1>3. c \in Byte /\ s \in Seq(Byte)
  BY <1>1, SeqMonotonic DEF Byte
<1> HIDE DEF s
<1>c. c = Crc(s)
  OBVIOUS
<1> HIDE DEF c
<1>4. Front(f) = s
  BY <1>1, <1>2, FrontAppend
<1> HIDE DEF f
<1>5. /\ f \in Seq(Byte) /\ Len(f) = Len(s) + 1
      /\ \A j \in 1 .. Len(s) : f[j] = s[j]
      /\ f[Len(s) + 1] = c
  BY <1>2, <1>3, AppendProperties
<1>6. Len(pl) \in Nat /\ Len(f) = Len(pl) + 3 /\ f[1] = <<type>> /\ f[2] = <<Len(pl)>>
  BY <1>1, <1>5
<1>7. open_frame(f)
  <2>1. Len(f) >= HeaderLen + CrcLen /\ Len(f) - HeaderLen - CrcLen = Len(pl)
    BY <1>6 DEF HeaderLen, CrcLen
  <2>2. f[Len(f)] = Crc(Front(f))
    BY <1>4, <1>5, <1>c
  <2> QED
    BY <1>6, <2>1, <2>2 DEF open_frame
<1>8. Payload(f) = pl
  <2>1. HeaderLen + 1 = 3 /\ Len(f) - CrcLen = Len(pl) + 2
    BY <1>6 DEF HeaderLen, CrcLen
  <2> DEFINE n == Len(pl) + 2
             q == SubSeq(f, 3, n)
  <2>2. n \in Int /\ n - 3 + 1 = Len(pl) /\ \A j \in 3 .. n : f[j] \in Byte
    BY <1>5, <1>6
  <2> HIDE DEF n
  <2>3. /\ q \in Seq(Byte) /\ Len(q) = IF 3 <= n THEN n - 3 + 1 ELSE 0
        /\ \A i \in 1 .. n - 3 + 1 : q[i] = f[3 + i - 1]
    BY <2>2, SubSeqProperties
  <2> HIDE DEF q
  <2>4. Len(q) = Len(pl)
    BY <1>6, <2>2, <2>3
  <2>5. ASSUME NEW i \in 1 .. Len(pl) PROVE q[i] = pl[i]
    <3>1. q[i] = f[3 + i - 1] /\ 3 + i - 1 = 2 + i /\ 2 + i \in 1 .. Len(s)
      BY <1>1, <1>6, <2>2, <2>3
    <3> QED
      BY <1>1, <1>5, <3>1
  <2>6. pl \in Seq(Byte)
    BY SeqMonotonic DEF Byte
  <2>7. q = pl
    BY <2>3, <2>4, <2>5, <2>6, SeqEqual
  <2> QED
    BY <2>1, <2>7 DEF Payload, q, n
<1>9. Front(f) = Covered(type, pl)
  BY <1>4 DEF s
<1>10. /\ f \in Seq(Byte) /\ Len(f) = Len(pl) + 3 /\ Len(pl) \in Nat
       /\ f[1] = <<type>> /\ f[2] = <<Len(pl)>>
       /\ Front(f) = Covered(type, pl)
       /\ open_frame(f) /\ Payload(f) = pl
  BY <1>5, <1>6, <1>7, <1>8, <1>9
<1> QED
  BY <1>10 DEF f

-----------------------------------------------------------------------------
(* Discovery *)

\* Two bytes are equal only if their numbers are.
LEMMA OneByte ==
  ASSUME NEW a, NEW b, <<a>> = <<b>>
  PROVE  a = b
OBVIOUS

\* A frame that lacks its last byte is not opened.
LEMMA CutIsBad ==
  ASSUME NEW type \in Nat, NEW pl \in Seq(Plain)
  PROVE  ~open_frame(Front(seal_frame(type, pl)))
<1> DEFINE s == Covered(type, pl)
<1>1. Front(seal_frame(type, pl)) = s
  BY SealIs
<1>a. s \in Seq(Plain) /\ Len(s) = Len(pl) + 2 /\ s[2] = <<Len(pl)>>
  BY CoveredIs, Zenon
<1> HIDE DEF s
<1>2. s \in Seq(Plain) /\ Len(s) = Len(pl) + 2 /\ s[2] = <<Len(pl)>> /\ Len(pl) \in Nat
  BY <1>a
<1>3. Len(s) - HeaderLen - CrcLen # Len(pl)
  BY <1>2 DEF HeaderLen, CrcLen
<1> DEFINE n == Len(s) - HeaderLen - CrcLen
           m == Len(pl)
<1>4. s[2] # <<n>>
  <2> HIDE DEF n, m
  <2>1. n # m /\ s[2] = <<m>>
    BY <1>2, <1>3 DEF n, m
  <2> SUFFICES ASSUME <<m>> = <<n>> PROVE FALSE
    BY <2>1
  <2> QED
    BY <2>1, OneByte
<1>5. ~open_frame(s)
  BY <1>4 DEF open_frame
<1> QED
  BY <1>1, <1>5

\* A text is plain bytes, of its length.
LEMMA TextIsBytes ==
  ASSUME NEW k \in Nat, NEW n \in Nat
  PROVE  Text(k, n) \in Seq(Plain) /\ Len(Text(k, n)) = n
<1>1. <<k>> \in Plain
  BY DEF Plain
<1> DEFINE x == <<k>>
<1>2. x \in Plain /\ Text(k, n) = [i \in 1 .. n |-> x]
  BY <1>1 DEF Text
<1> HIDE DEF x
<1> QED
  BY <1>2

\* A TLV is plain bytes.
LEMMA WritePlain ==
  ASSUME NEW tag \in Nat, NEW v \in Seq(Plain), Len(v) < LengthCap
  PROVE  write_tlv(tag, v) \in Seq(Plain)
BY WriteIs

\* A generated id has eight numbers.
LEMMA GeneratedIs ==
  ASSUME NEW seed \in Seq(Nibbles), Len(seed) = 6
  PROVE  \A n \in 1 .. 8 : hdhr_device_id_generate(seed)[n] \in Nat
<1> DEFINE s == <<1>> \o seed
           x == Checksum(s, 7)
           d == Append(s, x)
<1>1. s \in Seq(Nibbles) /\ Len(s) = 7
  <2>1. 1 \in Nibbles
    BY DEF Nibbles
  <2>2. <<1>> \o seed \in Seq(Nibbles) /\ Len(<<1>> \o seed) = 1 + Len(seed)
    BY <2>1, Prepend
  <2> QED
    BY <2>2
<1>2. hdhr_device_id_generate(seed) = d
  BY DEF hdhr_device_id_generate
<1> HIDE DEF s
<1>3. x = Checksum(s, 7)
  OBVIOUS
<1> HIDE DEF x
<1>4. /\ Append(s, x)[Len(s) + 1] = x
      /\ \A n \in 1 .. Len(s) : Append(s, x)[n] = s[n] /\ s[n] \in Nibbles
  <2>1. Alike(s, Append(s, x), Len(s)) /\ Append(s, x)[Len(s) + 1] = x
    BY <1>1, AlikeAppend
  <2> QED
    BY <2>1 DEF Alike
<1>5. x \in Nat
  <2>1. Alike(s, s, Len(s))
    BY <1>4 DEF Alike
  <2>2. 7 \in Nat /\ 7 <= 7 /\ Alike(s, s, 7)
    BY <1>1, <2>1
  <2>3. x = Sums(s, 7)[7]
    BY <1>3, <2>2, SumsDef, Zenon
  <2>4. Sums(s, 7)[7] \in Nat
    BY <2>2, SumsAgree, Zenon
  <2> QED
    BY <2>3, <2>4
<1>6. d[Len(s) + 1] = x /\ \A n \in 1 .. Len(s) : d[n] \in Nibbles
  BY <1>4
<1> HIDE DEF d
<1>7. d[8] = x /\ \A n \in 1 .. 7 : d[n] \in Nibbles
  BY <1>1, <1>6
<1>8. Nibbles \subseteq Nat
  BY DEF Nibbles
<1>9. ASSUME NEW n \in 1 .. 8 PROVE d[n] \in Nat
  <2>1. n \in 1 .. 7 \/ n = 8
    OBVIOUS
  <2> QED
    BY <1>5, <1>7, <1>8, <2>1
<1> QED
  BY <1>2, <1>9

\* The bytes of a daemon's id.
LEMMA OwnIdIs ==
  ASSUME NEW c \in Configs
  PROVE  IdBytes(config_load(c)) \in Seq(Plain) /\ Len(IdBytes(config_load(c))) = 4
<1> DEFINE d == config_load(c)
           w == IdBytes(d)
<1>1. \A n \in 1 .. 8 : d[n] \in Nat
  <2>1. CASE c.device_id = {}
    <3>1. d = hdhr_device_id_generate(c.seed)
      BY <2>1 DEF config_load, config_defaults
    <3>2. c.seed \in Seq(Nibbles) /\ Len(c.seed) = 6
      BY DatagramAssumption, Zenon
    <3> QED
      BY <3>1, <3>2, GeneratedIs
  <2>2. CASE c.device_id # {}
    <3>1. d \in c.device_id
      BY <2>2 DEF config_load
    <3>2. d \in Seq(Nibbles) /\ Len(d) = 8
      BY <3>1, DatagramAssumption, Zenon
    <3>3. Nibbles \subseteq Nat
      BY DEF Nibbles
    <3> HIDE DEF d
    <3>4. ASSUME NEW n \in 1 .. 8 PROVE d[n] \in Nat
      <4>1. n \in 1 .. Len(d)
        BY <3>2
      <4> QED
        BY <3>2, <3>3, <4>1, ElementOfSeq
    <3> QED
      BY <3>4
  <2> QED
    BY <2>1, <2>2
<1> HIDE DEF d
<1>2. ASSUME NEW i \in 1 .. 4 PROVE <<16 * d[2 * i - 1] + d[2 * i]>> \in Plain
  <2>1. 2 * i - 1 \in 1 .. 8 /\ 2 * i \in 1 .. 8
    OBVIOUS
  <2>2. 16 * d[2 * i - 1] + d[2 * i] \in Nat
    BY <1>1, <2>1
  <2> QED
    BY <2>2 DEF Plain
<1>3. w = [i \in 1 .. 4 |-> <<16 * d[2 * i - 1] + d[2 * i]>>]
  BY DEF IdBytes
<1>4. w \in [1 .. 4 -> Plain]
  BY <1>2, <1>3
<1> HIDE DEF w
<1>5. w \in Seq(Plain)
  BY <1>4, SeqDef
<1>6. DOMAIN w = 1 .. 4
  BY <1>4
<1>7. Len(w) = 4
  BY <1>5, <1>6, LenProperties
<1> QED
  BY <1>5, <1>7 DEF w, d

\* What a frame of TLVs holds.
LEMMA FrameHolds ==
  ASSUME NEW type \in Nat, NEW ts, IsTlvs(ts)
  PROVE  /\ FrameOf(type, ts) = seal_frame(type, FlattenSeq(Written(ts)))
         /\ FlattenSeq(Written(ts)) \in Seq(Plain)
         /\ open_frame(FrameOf(type, ts)) /\ FrameOf(type, ts)[1] = <<type>>
         /\ FrameOf(type, ts) # <<>>
         /\ read_tlvs(Payload(FrameOf(type, ts))) = [ok |-> TRUE, tlvs |-> ts]
<1> DEFINE pl == FlattenSeq(Written(ts))
           f == FrameOf(type, ts)
<1>1. pl \in Seq(Plain) /\ read_tlvs(pl) = [ok |-> TRUE, tlvs |-> ts]
  BY WrittenAre, CodecRoundTrip
<1>2. f = seal_frame(type, pl)
  BY DEF FrameOf, Written
<1> HIDE DEF pl, f
<1>3. /\ open_frame(f) /\ f[1] = <<type>> /\ Payload(f) = pl
      /\ Len(f) = Len(pl) + 3 /\ Len(pl) \in Nat
  BY <1>1, <1>2, SealIs
<1>4. f # <<>>
  BY <1>3
<1>5. read_tlvs(Payload(f)) = [ok |-> TRUE, tlvs |-> ts]
  BY <1>1, <1>3
<1> QED
  BY <1>1, <1>2, <1>3, <1>4, <1>5 DEF pl, f

\* A reply is a whole frame, announces the id, and is no request to anyone.
LEMMA ReplyAnnounces ==
  ASSUME NEW id \in Seq(Plain), Len(id) = 4
  PROVE  /\ open_frame(DiscoverReply(id)) /\ DiscoverReply(id) # <<>>
         /\ AnnouncedIds(DiscoverReply(id)) = {id}
         /\ \A x : ~handle_discover_req(DiscoverReply(id), x)
<1> DEFINE a == Tlv(DEVICE_TYPE, Tuner)
           b == Tlv(DEVICE_ID, id)
           n == Text(2, 1)
           c == Tlv(TUNER_COUNT, n)
           ts == <<a, b, c>>
           f == DiscoverReply(id)
<1>0. LengthCap \in Nat /\ LengthCap > 4
  <2>1. Base \in Nat /\ Base >= 2
    BY WireAssumption
  <2>2. Base * (2 * Base) >= 2 * (2 * Base) /\ Base * (2 * Base) \in Nat
    BY <2>1
  <2> QED
    BY <2>1, <2>2 DEF LengthCap
<1>1. /\ Tuner \in Seq(Plain) /\ Len(Tuner) = 4
      /\ n \in Seq(Plain) /\ Len(n) = 1
  BY TextIsBytes DEF Tuner, Four
<1> HIDE DEF n
<1>2. /\ a.tag = DEVICE_TYPE /\ a.val = Tuner /\ a = [tag |-> a.tag, val |-> a.val]
      /\ b.tag = DEVICE_ID /\ b.val = id /\ b = [tag |-> b.tag, val |-> b.val]
      /\ c.tag = TUNER_COUNT /\ c.val = n /\ c = [tag |-> c.tag, val |-> c.val]
  BY DEF Tlv
<1> HIDE DEF a, b, c
<1>3. /\ ts[1] = a /\ ts[2] = b /\ ts[3] = c /\ DOMAIN ts = 1 .. 3 /\ ts \in Seq({a, b, c})
  OBVIOUS
<1>4. f = FrameOf(DISCOVER_RPY, ts)
  BY Zenon DEF DiscoverReply, a, b, c, n
<1> HIDE DEF ts, f
<1>5. /\ DEVICE_TYPE \in Nat /\ DEVICE_ID \in Nat /\ TUNER_COUNT \in Nat
      /\ DISCOVER_RPY \in Nat /\ DEVICE_TYPE # DEVICE_ID /\ TUNER_COUNT # DEVICE_ID
      /\ DISCOVER_RPY # DISCOVER_REQ
  BY DEF DEVICE_TYPE, DEVICE_ID, TUNER_COUNT, DISCOVER_RPY, DISCOVER_REQ
<1>6. IsTlvs(ts)
  <2>1. Range(ts) = {a, b, c}
    BY <1>3 DEF Range
  <2>2. ASSUME NEW i \in DOMAIN ts
        PROVE  /\ ts[i] = [tag |-> ts[i].tag, val |-> ts[i].val] /\ ts[i].tag \in Nat
               /\ ts[i].val \in Seq(Plain) /\ Len(ts[i].val) < LengthCap
    <3>1. ts[i] = a \/ ts[i] = b \/ ts[i] = c
      BY <1>3
    <3>2. 4 < LengthCap /\ 1 < LengthCap
      BY <1>0
    <3> QED
      BY <1>1, <1>2, <1>5, <3>1, <3>2
  <2> QED
    BY <1>3, <2>1, <2>2 DEF IsTlvs
<1>7. /\ open_frame(f) /\ f[1] = <<DISCOVER_RPY>> /\ f # <<>>
      /\ read_tlvs(Payload(f)) = [ok |-> TRUE, tlvs |-> ts]
  BY <1>4, <1>5, <1>6, FrameHolds
<1>8. AnnouncedIds(f) = {id}
  <2> DEFINE hits == {i \in DOMAIN ts : ts[i].tag = DEVICE_ID /\ Len(ts[i].val) \in {4}}
  <2>1. read_tlvs(Payload(f)).tlvs = ts
    BY <1>7
  <2>2. AnnouncedIds(f) = {ts[i].val : i \in {i \in hits : \A j \in hits : j <= i}}
    BY <2>1, Zenon DEF AnnouncedIds, LastOf
  <2>3. hits = {2}
    BY <1>2, <1>3, <1>5
  <2> HIDE DEF hits
  <2>4. {i \in hits : \A j \in hits : j <= i} = {2}
    BY <2>3
  <2> QED
    BY <1>2, <1>3, <2>2, <2>4
<1>9. f[1] # <<DISCOVER_REQ>>
  BY <1>5, <1>7, OneByte
<1>10. \A x : ~handle_discover_req(f, x)
  BY <1>9 DEF handle_discover_req
<1> QED
  BY <1>7, <1>8, <1>10 DEF f

\* A datagram is answered exactly if it is a whole request for the device.
LEMMA AnswersItsOwn ==
  ASSUME NEW d \in Datagrams, NEW id
  PROVE  handle_discover_req(DatagramBytes(d), id) <=> AddressedTo(d, id)
<1> DEFINE f == FrameOf(d.type, d.tlvs)
<1>0. /\ d.type \in Nat /\ d.cut \in BOOLEAN /\ d.tlvs \in Seq(Range(d.tlvs))
      /\ \A i \in DOMAIN d.tlvs :
           /\ d.tlvs[i] = [tag |-> d.tlvs[i].tag, val |-> d.tlvs[i].val]
           /\ d.tlvs[i].tag \in Nat
           /\ IsBytes(d.tlvs[i].val) /\ Len(d.tlvs[i].val) < LengthCap
  BY DatagramAssumption DEF Tlv
<1>1. IsTlvs(d.tlvs)
  <2>1. ASSUME NEW i \in DOMAIN d.tlvs PROVE d.tlvs[i].val \in Seq(Plain)
    BY <1>0, BytesArePlain
  <2> QED
    BY <1>0, <2>1 DEF IsTlvs
<1>2. DatagramBytes(d) = IF d.cut THEN Front(f) ELSE f
  BY DEF DatagramBytes
<1>3. CASE d.cut
  <2>1. ~open_frame(DatagramBytes(d))
    BY <1>0, <1>1, <1>2, <1>3, FrameHolds, CutIsBad
  <2> QED
    BY <1>3, <2>1 DEF handle_discover_req, AddressedTo
<1>4. CASE ~d.cut
  <2>1. /\ open_frame(f) /\ f[1] = <<d.type>>
        /\ read_tlvs(Payload(f)) = [ok |-> TRUE, tlvs |-> d.tlvs]
    BY <1>0, <1>1, FrameHolds
  <2> HIDE DEF f
  <2>2. DatagramBytes(d) = f
    BY <1>2, <1>4
  <2>3. /\ read_tlvs(Payload(f)).ok
        /\ read_tlvs(Payload(f)).tlvs = d.tlvs
    BY <2>1
  <2>4. f[1] = <<DISCOVER_REQ>> <=> d.type = DISCOVER_REQ
    BY <2>1
  <2>5. handle_discover_req(f, id) <=>
          /\ d.type = DISCOVER_REQ
          /\ LastOf(d.tlvs, DEVICE_TYPE, {4}) \subseteq {Wildcard, Tuner}
          /\ LastOf(d.tlvs, DEVICE_ID, {4}) \subseteq {Wildcard, id}
    BY <2>1, <2>3, <2>4 DEF handle_discover_req
  <2>6. AddressedTo(d, id) <=>
          /\ d.type = DISCOVER_REQ
          /\ LastOf(d.tlvs, DEVICE_TYPE, {4}) \subseteq {Wildcard, Tuner}
          /\ LastOf(d.tlvs, DEVICE_ID, {4}) \subseteq {Wildcard, id}
    BY <1>4 DEF AddressedTo, Last4
  <2> QED
    BY <2>2, <2>5, <2>6
<1> QED
  BY <1>0, <1>3, <1>4

\* What is remembered of a datagram and its answer.
AnswerTo(d, c) ==
  [asked |-> TRUE, dgram |-> d, config |-> c,
   answer |-> IF handle_discover_req(DatagramBytes(d), IdBytes(config_load(c)))
              THEN DiscoverReply(IdBytes(config_load(c))) ELSE <<>>]
Remembered == disc = NoDatagram \/ \E d \in Datagrams, c \in Configs : disc = AnswerTo(d, c)

\* Only a datagram changes what is remembered of one.
LEMMA RememberedStep ==
  ASSUME Remembered, [WireNext]_wireVars
  PROVE  Remembered'
<1>1. ASSUME UNCHANGED disc PROVE Remembered'
  BY <1>1 DEF Remembered, AnswerTo
<1>2. ASSUME NEW d \in Datagrams, NEW c \in Configs, Discover(d, c) PROVE Remembered'
  <2>1. disc' = AnswerTo(d, c)
    BY <1>2, Zenon DEF Discover, AnswerTo
  <2> QED
    BY <2>1 DEF Remembered, AnswerTo
<1>3. CASE UNCHANGED wireVars
  BY <1>1, <1>3 DEF wireVars
<1>4. ASSUME NEW s \in Scripts, Connect(s) PROVE Remembered'
  BY <1>1, <1>4 DEF Connect
<1>5. CASE Server
  BY <1>1, <1>5, Zenon DEF Server, Read, ReadEof, Frame, Serve
<1>6. CASE Client
  BY <1>1, <1>6, Zenon DEF Client, ClientRead, ClientFrame, ClientGone
<1> QED
  BY <1>2, <1>3, <1>4, <1>5, <1>6, Zenon DEF WireNext

\* The daemon answers a datagram exactly if it is a whole discovery request for
\* a tuner of its id; the answer announces this id and is no request to anyone;
\* and unless the file names another, the id passes the clients' checksum
\* (handle_discover_req, config_load, hdhr_device_id_generate), for any datagrams,
\* configurations and length base.
THEOREM DiscoveryIsAddressed == WireSpec => []DiscoverAddressed
<1>1. WireInit => Remembered
  BY DEF WireInit, Remembered
<1>2. Remembered => DiscoverAddressed
  <2>1. CASE disc = NoDatagram
    BY <2>1 DEF NoDatagram, DiscoverAddressed
  <2>2. ASSUME NEW d \in Datagrams, NEW c \in Configs, disc = AnswerTo(d, c)
        PROVE  DiscoverAddressed
    <3> DEFINE own == config_load(c)
               id == IdBytes(own)
    <3>1. /\ disc.dgram = d /\ disc.config = c
          /\ disc.answer = IF handle_discover_req(DatagramBytes(d), id)
                           THEN DiscoverReply(id) ELSE <<>>
      BY <2>2 DEF AnswerTo
    <3>2. id \in Seq(Plain) /\ Len(id) = 4
      BY OwnIdIs
    <3>3. c.device_id = {} => hdhr_device_id_is_valid(own)
      <4>1. c.seed \in Seq(Nibbles) /\ Len(c.seed) = 6
        BY DatagramAssumption, Zenon
      <4>2. c.device_id = {} => own = hdhr_device_id_generate(c.seed)
        BY DEF config_load, config_defaults
      <4> QED
        BY <4>1, <4>2, GeneratedIdIsValid, Zenon
    <3> HIDE DEF id
    <3>4. /\ open_frame(DiscoverReply(id)) /\ DiscoverReply(id) # <<>>
          /\ AnnouncedIds(DiscoverReply(id)) = {id}
          /\ \A x : ~handle_discover_req(DiscoverReply(id), x)
      BY <3>2, ReplyAnnounces, Zenon
    <3>5. /\ disc.answer # <<>> <=> handle_discover_req(DatagramBytes(d), id)
          /\ disc.answer # <<>> => disc.answer = DiscoverReply(id)
      BY <3>1, <3>4, Zenon
    <3>6. disc.answer # <<>> <=> AddressedTo(d, id)
      BY <3>5, AnswersItsOwn, Zenon
    <3> QED
      BY <3>1, <3>3, <3>4, <3>5, <3>6, Zenon DEF DiscoverAddressed, id
  <2> QED
    BY <2>1, <2>2, Zenon DEF Remembered
<1> QED
  BY <1>1, <1>2, RememberedStep, PTL DEF WireSpec

-----------------------------------------------------------------------------
(* Texts *)

\* What two bytes hold is more than a text of one character.
LEMMA Bounds ==
  /\ Base \in Nat /\ Base >= 2 /\ LengthCap \in Nat /\ LengthCap > 4
  /\ NameCap \in Nat /\ ValueCap \in Nat /\ ValueCap >= 2 /\ MaxPacket \in Nat
  /\ NameCap <= LengthCap /\ ValueCap <= LengthCap
  /\ NameCap + ValueCap + 9 <= MaxPacket
<1>1. Base \in Nat /\ Base >= 2
  BY WireAssumption
<1>2. Base * (2 * Base) >= 2 * (2 * Base) /\ Base * (2 * Base) \in Nat
  BY <1>1
<1>3. LengthCap \in Nat /\ LengthCap > 4
  BY <1>1, <1>2 DEF LengthCap
<1>4. /\ NameCap \in Nat /\ ValueCap \in Nat /\ ValueCap >= 2 /\ MaxPacket \in Nat
      /\ NameCap <= LengthCap /\ ValueCap <= LengthCap
      /\ 2 + (NameCap + 3) + (ValueCap + 3) + 1 <= MaxPacket
  BY WireAssumption DEF HeaderLen, CrcLen
<1> HIDE DEF LengthCap
<1>5. NameCap + ValueCap + 9 <= MaxPacket
  BY <1>4
<1> QED
  BY <1>1, <1>3, <1>4, <1>5

\* A text with its NUL: the NUL is the last byte and no other byte is one.
LEMMA TextPlain ==
  ASSUME NEW v, IsText(v)
  PROVE  /\ v \in Seq(Plain) /\ Len(v) \in Nat
         /\ v \o Nul \in Seq(Plain) /\ Len(v \o Nul) = Len(v) + 1
         /\ \A i \in 1 .. Len(v) : (v \o Nul)[i] = v[i] /\ v[i] # <<0>>
         /\ (v \o Nul)[Len(v) + 1] = <<0>>
<1> DEFINE z == <<0>>
<1>1. v \in Seq(Plain)
  BY BytesArePlain DEF IsText
<1>2. z \in Plain /\ Nul = <<z>>
  BY DEF Plain, Nul
<1>3. ASSUME NEW i \in 1 .. Len(v) PROVE v[i] # z
  <2>1. i \in DOMAIN v /\ v[i][1] # 0 /\ v[i] = <<v[i][1]>>
    BY <1>1 DEF IsText, IsBytes
  <2> QED
    BY <2>1
<1> HIDE DEF z
<1>4. /\ v \o <<z>> \in Seq(Plain) /\ Len(v \o <<z>>) = Len(v) + 1
      /\ \A i \in 1 .. Len(v) : (v \o <<z>>)[i] = v[i]
      /\ (v \o <<z>>)[Len(v) + 1] = z
      /\ Len(v) \in Nat
  BY <1>1, <1>2
<1> QED
  BY <1>1, <1>2, <1>3, <1>4, Zenon DEF z

\* The NUL that was written after a text ends it.
LEMMA CStringNul ==
  ASSUME NEW v, IsText(v)
  PROVE  CString(v \o Nul) = v
<1> DEFINE w == v \o Nul
           z == <<0>>
           ends == {i \in DOMAIN w : w[i] = z}
           n == Len(v) + 1
<1>1. /\ v \in Seq(Plain) /\ Len(v) \in Nat
      /\ w \in Seq(Plain) /\ Len(w) = n
      /\ \A i \in 1 .. Len(v) : w[i] = v[i] /\ v[i] # z
      /\ w[n] = z
  BY TextPlain, Zenon
<1>2. CString(w) = IF ends = {} THEN w
                   ELSE SubSeq(w, 1, (CHOOSE i \in ends : \A j \in ends : i <= j) - 1)
  BY Zenon DEF CString
<1> HIDE DEF w, z
<1>3. ends = {n}
  BY <1>1
<1>4. (CHOOSE i \in ends : \A j \in ends : i <= j) = n
  BY <1>1, <1>3
<1>5. CString(w) = SubSeq(w, 1, n - 1)
  BY <1>2, <1>3, <1>4
<1>6. n - 1 = Len(v)
  BY <1>1
<1>7. SubSeq(w, 1, Len(v)) = v
  BY <1>1
<1> QED
  BY <1>5, <1>6, <1>7 DEF w

-----------------------------------------------------------------------------
(* One and two TLVs *)

IsTlv(tag, val) == tag \in Nat /\ val \in Seq(Plain) /\ Len(val) < LengthCap

\* A stream of one piece.
LEMMA FlatOne ==
  ASSUME NEW a \in Seq(Plain)
  PROVE  FlattenSeq(<<a>>) = a
<1> DEFINE fr == <<a>>
<1>1. fr \in Seq(Seq(Plain)) /\ Len(fr) = 1 /\ fr[1] = a
  OBVIOUS
<1> HIDE DEF fr
<1>2. /\ FlattenSeq(fr) = Pieces(fr, 1)
      /\ \A n \in 1 .. Len(fr) : Pieces(fr, n) = Pieces(fr, n - 1) \o fr[n]
  BY <1>1, PiecesGrow
<1>3. Pieces(fr, 0) = <<>>
  BY DEF Pieces
<1>4. 1 \in 1 .. Len(fr) /\ 1 - 1 = 0
  BY <1>1
<1>5. Pieces(fr, 1) = <<>> \o a
  BY <1>1, <1>2, <1>3, <1>4
<1>6. <<>> \o a = a
  BY ConcatEmptySeq
<1>7. FlattenSeq(fr) = a
  BY <1>2, <1>5, <1>6, Zenon
<1> QED
  BY <1>7 DEF fr

\* A stream of two pieces.
LEMMA FlatTwo ==
  ASSUME NEW a \in Seq(Plain), NEW b \in Seq(Plain)
  PROVE  FlattenSeq(<<a, b>>) = a \o b
<1> DEFINE fr == <<a, b>>
<1>1. fr \in Seq(Seq(Plain)) /\ Len(fr) = 2 /\ fr[1] = a /\ fr[2] = b
  OBVIOUS
<1> HIDE DEF fr
<1>2. /\ FlattenSeq(fr) = Pieces(fr, 2)
      /\ \A n \in 1 .. Len(fr) : Pieces(fr, n) = Pieces(fr, n - 1) \o fr[n]
  BY <1>1, PiecesGrow
<1>3. Pieces(fr, 0) = <<>>
  BY DEF Pieces
<1>4. 1 \in 1 .. Len(fr) /\ 2 \in 1 .. Len(fr) /\ 1 - 1 = 0 /\ 2 - 1 = 1
  BY <1>1
<1>5. Pieces(fr, 1) = <<>> \o a /\ Pieces(fr, 2) = Pieces(fr, 1) \o b
  BY <1>1, <1>2, <1>3, <1>4
<1>6. <<>> \o a = a
  BY ConcatEmptySeq
<1>7. FlattenSeq(fr) = a \o b
  BY <1>2, <1>5, <1>6, Zenon
<1> QED
  BY <1>7 DEF fr

\* A payload of one TLV is read as it was written.
LEMMA ReadsOneTlv ==
  ASSUME NEW tag, NEW val, IsTlv(tag, val)
  PROVE  read_tlvs(write_tlv(tag, val)) = [ok |-> TRUE, tlvs |-> <<Tlv(tag, val)>>]
<1> DEFINE t == Tlv(tag, val)
           ts == <<t>>
           w == write_tlv(tag, val)
<1>0. w \in Seq(Plain)
  BY WritePlain DEF IsTlv
<1>1. t.tag = tag /\ t.val = val /\ t = [tag |-> t.tag, val |-> t.val]
  BY DEF Tlv
<1> HIDE DEF t
<1>2. ts \in Seq(Range(ts)) /\ DOMAIN ts = {1} /\ ts[1] = t
  BY DEF Range
<1>3. IsTlvs(ts)
  <2> HIDE DEF ts
  <2> QED
    BY <1>1, <1>2 DEF IsTlvs, IsTlv
<1>4. Written(ts) = <<w>>
  BY <1>1 DEF Written
<1> HIDE DEF ts, w
<1>5. FlattenSeq(Written(ts)) = w
  BY <1>0, <1>4, FlatOne
<1>6. read_tlvs(w) = [ok |-> TRUE, tlvs |-> ts]
  BY <1>3, <1>5, CodecRoundTrip
<1> QED
  BY <1>6 DEF ts, t, w

\* A payload of two TLVs is read as it was written.
LEMMA ReadsTwoTlvs ==
  ASSUME NEW g1, NEW v1, IsTlv(g1, v1), NEW g2, NEW v2, IsTlv(g2, v2)
  PROVE  read_tlvs(write_tlv(g1, v1) \o write_tlv(g2, v2))
           = [ok |-> TRUE, tlvs |-> <<Tlv(g1, v1), Tlv(g2, v2)>>]
<1> DEFINE t1 == Tlv(g1, v1)
           t2 == Tlv(g2, v2)
           ts == <<t1, t2>>
           w1 == write_tlv(g1, v1)
           w2 == write_tlv(g2, v2)
<1>0. w1 \in Seq(Plain) /\ w2 \in Seq(Plain)
  BY WritePlain DEF IsTlv
<1>1. /\ t1.tag = g1 /\ t1.val = v1 /\ t1 = [tag |-> t1.tag, val |-> t1.val]
      /\ t2.tag = g2 /\ t2.val = v2 /\ t2 = [tag |-> t2.tag, val |-> t2.val]
  BY DEF Tlv
<1> HIDE DEF t1, t2
<1>2. ts \in Seq(Range(ts)) /\ DOMAIN ts = {1, 2} /\ ts[1] = t1 /\ ts[2] = t2
  BY DEF Range
<1>3. IsTlvs(ts)
  <2> HIDE DEF ts
  <2> QED
    BY <1>1, <1>2 DEF IsTlvs, IsTlv
<1>4. Written(ts) = <<w1, w2>>
  BY <1>1 DEF Written
<1> HIDE DEF ts, w1, w2
<1>5. FlattenSeq(Written(ts)) = w1 \o w2
  BY <1>0, <1>4, FlatTwo
<1>6. read_tlvs(w1 \o w2) = [ok |-> TRUE, tlvs |-> ts]
  BY <1>3, <1>5, CodecRoundTrip
<1> QED
  BY <1>6 DEF ts, t1, t2, w1, w2

\* The tags and the types are numbers, and different where it matters.
LEMMA Tags ==
  /\ GETSET_NAME \in Nat /\ GETSET_VALUE \in Nat /\ ERROR_MESSAGE \in Nat
  /\ GETSET_NAME # GETSET_VALUE /\ GETSET_NAME # ERROR_MESSAGE
  /\ GETSET_VALUE # ERROR_MESSAGE
  /\ GETSET_REQ \in Nat /\ GETSET_RPY \in Nat /\ UPGRADE_REQ \in Nat
  /\ UPGRADE_REQ # GETSET_REQ
BY DEF GETSET_NAME, GETSET_VALUE, ERROR_MESSAGE, GETSET_REQ, GETSET_RPY, UPGRADE_REQ

\* The value of a tag among one TLV.
LEMMA LastOfOne ==
  ASSUME NEW g, NEW v, NEW tag, NEW sizes
  PROVE  LastOf(<<Tlv(g, v)>>, tag, sizes) = IF g = tag /\ Len(v) \in sizes THEN {v} ELSE {}
<1> DEFINE ts == <<Tlv(g, v)>>
           hits == {i \in DOMAIN ts : ts[i].tag = tag /\ Len(ts[i].val) \in sizes}
<1>1. DOMAIN ts = {1} /\ ts[1].tag = g /\ ts[1].val = v
  BY DEF Tlv
<1>2. LastOf(ts, tag, sizes) = {ts[i].val : i \in {i \in hits : \A j \in hits : j <= i}}
  BY Zenon DEF LastOf
<1> HIDE DEF ts
<1>3. CASE g = tag /\ Len(v) \in sizes
  <2>1. hits = {1}
    BY <1>1, <1>3
  <2> HIDE DEF hits
  <2>2. {i \in hits : \A j \in hits : j <= i} = {1}
    BY <2>1
  <2>3. LastOf(ts, tag, sizes) = {v}
    BY <1>1, <1>2, <2>2
  <2> QED
    BY <1>3, <2>3 DEF ts
<1>4. CASE ~(g = tag /\ Len(v) \in sizes)
  <2>1. hits = {}
    BY <1>1, <1>4
  <2> HIDE DEF hits
  <2>2. LastOf(ts, tag, sizes) = {}
    BY <1>2, <2>1
  <2> QED
    BY <1>4, <2>2 DEF ts
<1> QED
  BY <1>3, <1>4

\* The value of a tag among two TLVs of different tags.
LEMMA LastOfTwo ==
  ASSUME NEW g1, NEW v1, NEW g2, NEW v2, NEW tag, NEW sizes, g1 # g2
  PROVE  LastOf(<<Tlv(g1, v1), Tlv(g2, v2)>>, tag, sizes)
           = IF g1 = tag /\ Len(v1) \in sizes THEN {v1}
             ELSE IF g2 = tag /\ Len(v2) \in sizes THEN {v2} ELSE {}
<1> DEFINE ts == <<Tlv(g1, v1), Tlv(g2, v2)>>
           hits == {i \in DOMAIN ts : ts[i].tag = tag /\ Len(ts[i].val) \in sizes}
<1>1. /\ DOMAIN ts = {1, 2} /\ ts[1].tag = g1 /\ ts[1].val = v1
      /\ ts[2].tag = g2 /\ ts[2].val = v2
  BY DEF Tlv
<1>2. LastOf(ts, tag, sizes) = {ts[i].val : i \in {i \in hits : \A j \in hits : j <= i}}
  BY Zenon DEF LastOf
<1> HIDE DEF ts
<1>3. CASE g1 = tag /\ Len(v1) \in sizes
  <2>1. hits = {1}
    BY <1>1, <1>3
  <2> HIDE DEF hits
  <2>2. {i \in hits : \A j \in hits : j <= i} = {1}
    BY <2>1
  <2>3. LastOf(ts, tag, sizes) = {v1}
    BY <1>1, <1>2, <2>2
  <2> QED
    BY <1>3, <2>3 DEF ts
<1>4. CASE ~(g1 = tag /\ Len(v1) \in sizes) /\ g2 = tag /\ Len(v2) \in sizes
  <2>1. hits = {2}
    BY <1>1, <1>4
  <2> HIDE DEF hits
  <2>2. {i \in hits : \A j \in hits : j <= i} = {2}
    BY <2>1
  <2>3. LastOf(ts, tag, sizes) = {v2}
    BY <1>1, <1>2, <2>2
  <2> QED
    BY <1>4, <2>3 DEF ts
<1>5. CASE ~(g1 = tag /\ Len(v1) \in sizes) /\ ~(g2 = tag /\ Len(v2) \in sizes)
  <2>1. hits = {}
    BY <1>1, <1>5
  <2> HIDE DEF hits
  <2>2. LastOf(ts, tag, sizes) = {}
    BY <1>2, <2>1
  <2> QED
    BY <1>5, <2>2 DEF ts
<1> QED
  BY <1>3, <1>4, <1>5

-----------------------------------------------------------------------------
(* The frames of a script *)

FrameOK(f) ==
  /\ f.kind \in Kinds
  /\ IsText(f.name) /\ Len(f.name) + 1 < LengthCap
  /\ IsText(f.value) /\ Len(f.value) + 1 < LengthCap
  /\ f.kind # "absurd" => Len(Bytes(f)) <= MaxPacket

\* It announces its own length.
Announced(w) == w \in Seq(Byte) /\ Len(w) \in Nat /\ Len(w) >= 3 /\ w[2] = <<Len(w) - 3>>

\* The thread passes over a frame.
Passed(w) ==
  \/ w[1] # <<GETSET_REQ>> \/ ~read_tlvs(Payload(w)).ok
  \/ Request(read_tlvs(Payload(w)).tlvs).name = {}

\* A sealed frame announces its length and opens.
LEMMA SealAnnounced ==
  ASSUME NEW type \in Nat, NEW pl \in Seq(Plain)
  PROVE  /\ Announced(seal_frame(type, pl)) /\ open_frame(seal_frame(type, pl))
         /\ seal_frame(type, pl)[1] = <<type>> /\ Payload(seal_frame(type, pl)) = pl
         /\ Len(seal_frame(type, pl)) = Len(pl) + 3
<1> DEFINE w == seal_frame(type, pl)
<1>1. /\ w \in Seq(Byte) /\ Len(w) = Len(pl) + 3 /\ Len(pl) \in Nat
      /\ w[1] = <<type>> /\ w[2] = <<Len(pl)>>
      /\ open_frame(w) /\ Payload(w) = pl
  BY SealIs, Zenon
<1> HIDE DEF w
<1>2. Len(w) - 3 = Len(pl) /\ Len(w) \in Nat /\ Len(w) >= 3
  BY <1>1
<1>3. Announced(w)
  BY <1>1, <1>2, Zenon DEF Announced
<1> QED
  BY <1>1, <1>3 DEF w

\* What a name and a value give.
LEMMA NameTlv ==
  ASSUME NEW f, FrameOK(f)
  PROVE  /\ IsTlv(GETSET_NAME, f.name \o Nul) /\ IsTlv(GETSET_VALUE, f.value \o Nul)
         /\ Name(f) = write_tlv(GETSET_NAME, f.name \o Nul)
         /\ Value(f) = write_tlv(GETSET_VALUE, f.value \o Nul)
         /\ Name(f) \in Seq(Plain) /\ Value(f) \in Seq(Plain)
         /\ Len(f.name \o Nul) \in Fits(NameCap) \ {0} <=> Len(f.name) + 1 < NameCap
         /\ Len(f.value \o Nul) \in Fits(ValueCap) <=> Len(f.value) + 1 < ValueCap
         /\ CString(f.name \o Nul) = f.name /\ CString(f.value \o Nul) = f.value
         /\ f.name \o Nul # <<>>
<1> DEFINE a == f.name \o Nul
           b == f.value \o Nul
<1>0. IsText(f.name) /\ IsText(f.value) /\ Len(f.name) + 1 < LengthCap /\ Len(f.value) + 1 < LengthCap
  BY DEF FrameOK
<1>1. a \in Seq(Plain) /\ Len(a) = Len(f.name) + 1 /\ Len(f.name) \in Nat
  BY <1>0, TextPlain
<1>2. b \in Seq(Plain) /\ Len(b) = Len(f.value) + 1 /\ Len(f.value) \in Nat
  BY <1>0, TextPlain
<1>3. CString(a) = f.name /\ CString(b) = f.value
  BY <1>0, CStringNul
<1>4. Name(f) = write_tlv(GETSET_NAME, a) /\ Value(f) = write_tlv(GETSET_VALUE, b)
  BY DEF Name, Value, write_tlv_str
<1> HIDE DEF a, b
<1>5. IsTlv(GETSET_NAME, a) /\ IsTlv(GETSET_VALUE, b)
  BY <1>0, <1>1, <1>2, Tags DEF IsTlv
<1>6. Name(f) \in Seq(Plain) /\ Value(f) \in Seq(Plain)
  BY <1>4, <1>5, WritePlain DEF IsTlv
<1>7. /\ Len(a) \in Fits(NameCap) \ {0} <=> Len(f.name) + 1 < NameCap
      /\ Len(b) \in Fits(ValueCap) <=> Len(f.value) + 1 < ValueCap
      /\ a # <<>>
  BY <1>1, <1>2, Bounds DEF Fits
<1> QED
  BY <1>3, <1>4, <1>5, <1>6, <1>7, Zenon DEF a, b

\* A GET is served if its name fits, and passed over otherwise.
LEMMA GetFrame ==
  ASSUME NEW f, FrameOK(f), f.kind = "get"
  PROVE  /\ Announced(Bytes(f)) /\ open_frame(Bytes(f))
         /\ Passed(Bytes(f)) <=> ~Asks(f)
         /\ Asks(f) => Request(read_tlvs(Payload(Bytes(f))).tlvs) = Wants(f)
<1> DEFINE a == f.name \o Nul
           w == Bytes(f)
           ts == read_tlvs(Payload(w)).tlvs
<1>1. w = seal_frame(GETSET_REQ, Name(f))
  BY DEF Bytes
<1> HIDE DEF w
<1>2. Announced(w) /\ open_frame(w) /\ w[1] = <<GETSET_REQ>> /\ Payload(w) = Name(f)
  BY <1>1, SealAnnounced, NameTlv, Tags
<1>3. read_tlvs(Payload(w)) = [ok |-> TRUE, tlvs |-> <<Tlv(GETSET_NAME, a)>>]
  BY <1>2, NameTlv, ReadsOneTlv
<1>4. read_tlvs(Payload(w)).ok /\ ts = <<Tlv(GETSET_NAME, a)>>
  BY <1>3
<1> HIDE DEF ts
<1>5. LastOf(ts, GETSET_NAME, Fits(NameCap) \ {0})
        = IF Len(f.name) + 1 < NameCap THEN {a} ELSE {}
  BY <1>4, LastOfOne, NameTlv, Zenon
<1>6. LastOf(ts, GETSET_VALUE, Fits(ValueCap)) = {}
  BY <1>4, LastOfOne, Tags, Zenon
<1>7. CString(a) = f.name
  BY NameTlv
<1> HIDE DEF a
<1>8. Request(ts) = [name |-> IF Len(f.name) + 1 < NameCap THEN {f.name} ELSE {}, value |-> {}]
  BY <1>5, <1>6, <1>7 DEF Request
<1>c. Request(ts).name = IF Len(f.name) + 1 < NameCap THEN {f.name} ELSE {}
  BY <1>8
<1>d. w[1] = <<GETSET_REQ>> /\ read_tlvs(Payload(w)).ok
  BY <1>2, <1>4
<1>e. Passed(w) <=> Request(ts).name = {}
  BY <1>d, Zenon DEF Passed, ts
<1>9. Passed(w) <=> ~Asks(f)
  BY <1>c, <1>e DEF Asks
<1>10. Asks(f) => Request(ts) = Wants(f)
  BY <1>8 DEF Asks, Wants
<1> QED
  BY <1>2, <1>9, <1>10 DEF w, ts

\* So is a SET; a value that does not fit is not there.
LEMMA SetFrame ==
  ASSUME NEW f, FrameOK(f), f.kind = "set"
  PROVE  /\ Announced(Bytes(f)) /\ open_frame(Bytes(f))
         /\ Passed(Bytes(f)) <=> ~Asks(f)
         /\ Asks(f) => Request(read_tlvs(Payload(Bytes(f))).tlvs) = Wants(f)
<1> DEFINE a == f.name \o Nul
           b == f.value \o Nul
           w == Bytes(f)
           ts == read_tlvs(Payload(w)).tlvs
<1>1. w = seal_frame(GETSET_REQ, Name(f) \o Value(f))
  BY DEF Bytes
<1> HIDE DEF w
<1>a. Name(f) \o Value(f) \in Seq(Plain)
  BY NameTlv
<1>2. Announced(w) /\ open_frame(w) /\ w[1] = <<GETSET_REQ>> /\ Payload(w) = Name(f) \o Value(f)
  BY <1>1, <1>a, SealAnnounced, Tags
<1>3. read_tlvs(Payload(w))
        = [ok |-> TRUE, tlvs |-> <<Tlv(GETSET_NAME, a), Tlv(GETSET_VALUE, b)>>]
  BY <1>2, NameTlv, ReadsTwoTlvs
<1>4. read_tlvs(Payload(w)).ok /\ ts = <<Tlv(GETSET_NAME, a), Tlv(GETSET_VALUE, b)>>
  BY <1>3
<1> HIDE DEF ts
<1>b. /\ Len(a) \in Fits(NameCap) \ {0} <=> Len(f.name) + 1 < NameCap
      /\ Len(b) \in Fits(ValueCap) <=> Len(f.value) + 1 < ValueCap
      /\ GETSET_NAME # GETSET_VALUE
  BY NameTlv, Tags, Zenon
<1>5. LastOf(ts, GETSET_NAME, Fits(NameCap) \ {0})
        = IF Len(f.name) + 1 < NameCap THEN {a} ELSE {}
  <2> HIDE DEF a, b
  <2> DEFINE sizes == Fits(NameCap) \ {0}
  <2> HIDE DEF sizes
  <2>1. LastOf(ts, GETSET_NAME, sizes)
          = IF GETSET_NAME = GETSET_NAME /\ Len(a) \in sizes THEN {a}
            ELSE IF GETSET_VALUE = GETSET_NAME /\ Len(b) \in sizes THEN {b} ELSE {}
    BY <1>4, <1>b, LastOfTwo, Zenon
  <2> QED
    BY <1>b, <2>1 DEF sizes
<1>6. LastOf(ts, GETSET_VALUE, Fits(ValueCap))
        = IF Len(f.value) + 1 < ValueCap THEN {b} ELSE {}
  <2> HIDE DEF a, b
  <2> DEFINE sizes == Fits(ValueCap)
  <2> HIDE DEF sizes
  <2>1. LastOf(ts, GETSET_VALUE, sizes)
          = IF GETSET_NAME = GETSET_VALUE /\ Len(a) \in sizes THEN {a}
            ELSE IF GETSET_VALUE = GETSET_VALUE /\ Len(b) \in sizes THEN {b} ELSE {}
    BY <1>4, <1>b, LastOfTwo, Zenon
  <2> QED
    BY <1>b, <2>1 DEF sizes
<1>7. CString(a) = f.name /\ CString(b) = f.value
  BY NameTlv
<1> HIDE DEF a, b
<1>8. Request(ts) = [name |-> IF Len(f.name) + 1 < NameCap THEN {f.name} ELSE {},
                     value |-> IF Len(f.value) + 1 < ValueCap THEN {f.value} ELSE {}]
  BY <1>5, <1>6, <1>7 DEF Request
<1>c. Request(ts).name = IF Len(f.name) + 1 < NameCap THEN {f.name} ELSE {}
  BY <1>8
<1>d. w[1] = <<GETSET_REQ>> /\ read_tlvs(Payload(w)).ok
  BY <1>2, <1>4
<1>e. Passed(w) <=> Request(ts).name = {}
  BY <1>d, Zenon DEF Passed, ts
<1>9. Passed(w) <=> ~Asks(f)
  BY <1>c, <1>e DEF Asks
<1>10. Asks(f) => Request(ts) = Wants(f)
  <2> DEFINE V == IF Len(f.value) + 1 < ValueCap THEN {f.value} ELSE {}
  <2>1. Wants(f) = [name |-> {f.name}, value |-> V]
    BY DEF Wants
  <2>2. Asks(f) => Len(f.name) + 1 < NameCap
    BY DEF Asks
  <2> HIDE DEF V
  <2>3. Request(ts) = [name |-> IF Len(f.name) + 1 < NameCap THEN {f.name} ELSE {}, value |-> V]
    BY <1>8 DEF V
  <2> QED
    BY <2>1, <2>2, <2>3
<1> QED
  BY <1>2, <1>9, <1>10 DEF w, ts

\* Another type, malformed TLVs and no name are passed over.
LEMMA PassedFrame ==
  ASSUME NEW f, FrameOK(f), f.kind \in {"other", "noname", "short"}
  PROVE  Announced(Bytes(f)) /\ open_frame(Bytes(f)) /\ Passed(Bytes(f)) /\ ~Asks(f)
<1> DEFINE w == Bytes(f)
<1>0. ~Asks(f)
  BY DEF Asks
<1>1. CASE f.kind = "other"
  <2>1. w = seal_frame(UPGRADE_REQ, Name(f))
    BY <1>1 DEF Bytes
  <2> HIDE DEF w
  <2>2. Announced(w) /\ open_frame(w) /\ w[1] = <<UPGRADE_REQ>>
    BY <2>1, SealAnnounced, NameTlv, Tags
  <2>3. w[1] # <<GETSET_REQ>>
    BY <2>2, Tags, OneByte
  <2> QED
    BY <1>0, <2>2, <2>3 DEF Passed, w
<1>2. CASE f.kind = "noname"
  <2> DEFINE ts == read_tlvs(Payload(w)).tlvs
             b == f.value \o Nul
  <2>1. w = seal_frame(GETSET_REQ, Value(f))
    BY <1>2 DEF Bytes
  <2> HIDE DEF w
  <2>2. Announced(w) /\ open_frame(w) /\ Payload(w) = Value(f)
    BY <2>1, SealAnnounced, NameTlv, Tags
  <2>3. read_tlvs(Payload(w)) = [ok |-> TRUE, tlvs |-> <<Tlv(GETSET_VALUE, b)>>]
    BY <2>2, NameTlv, ReadsOneTlv
  <2>4. ts = <<Tlv(GETSET_VALUE, b)>>
    BY <2>3
  <2> HIDE DEF ts
  <2>5. LastOf(ts, GETSET_NAME, Fits(NameCap) \ {0}) = {}
    BY <2>4, LastOfOne, Tags, Zenon
  <2>6. Request(ts).name = {}
    BY <2>5 DEF Request
  <2> QED
    BY <1>0, <2>2, <2>6 DEF Passed, w, ts
<1>3. CASE f.kind = "short"
  <2>1. w = seal_frame(GETSET_REQ, Front(Name(f)))
    BY <1>3 DEF Bytes
  <2>2. Name(f) \in Seq(Plain) /\ Name(f) # <<>>
    <3>1. Name(f) \in Seq(Plain) /\ Name(f) = write_tlv(GETSET_NAME, f.name \o Nul)
          /\ IsTlv(GETSET_NAME, f.name \o Nul)
      BY NameTlv
    <3> DEFINE a == f.name \o Nul
    <3> HIDE DEF a
    <3>a. a \in Seq(Plain) /\ Len(a) < LengthCap /\ Name(f) = write_tlv(GETSET_NAME, a)
      BY <3>1 DEF IsTlv, a
    <3>2. Len(Name(f)) = Head2(a) + Len(a)
      BY <3>a, WriteIs, Tags
    <3>3. Len(Name(f)) >= 2
      BY <3>a, <3>2 DEF Head2
    <3> QED
      BY <3>1, <3>3
  <2>3. Front(Name(f)) \in Seq(Plain)
    BY <2>2 DEF Front
  <2> HIDE DEF w
  <2>4. Announced(w) /\ open_frame(w) /\ Payload(w) = Front(Name(f))
    BY <2>1, <2>3, SealAnnounced, Tags
  <2>5. read_tlvs(Front(Name(f))).ok = FALSE
    BY NameTlv, ReadShort DEF IsTlv
  <2> QED
    BY <1>0, <2>4, <2>5 DEF Passed, w
<1> QED
  BY <1>1, <1>2, <1>3

\* A wrong CRC.
LEMMA BadCrcFrame ==
  ASSUME NEW f, FrameOK(f), f.kind = "badcrc"
  PROVE  Announced(Bytes(f)) /\ ~open_frame(Bytes(f))
<1> DEFINE w == Bytes(f)
           s == Covered(GETSET_REQ, Name(f))
           z == <<0>>
<1>1. w = Append(Front(seal_frame(GETSET_REQ, Name(f))), z)
  BY DEF Bytes
<1>2. Front(seal_frame(GETSET_REQ, Name(f))) = s
  BY SealIs, NameTlv, Tags
<1>3. /\ s \in Seq(Plain) /\ Len(s) = Len(Name(f)) + 2
      /\ s[2] = <<Len(Name(f))>>
  BY CoveredIs, NameTlv, Tags
<1>4. z \in Plain /\ z # Crc(s)
  <2>1. z[1] = 0 /\ Crc(s)[1] = -1
    BY DEF Crc
  <2>2. z \in Plain
    BY DEF Plain
  <2> QED
    BY <2>1, <2>2
<1> HIDE DEF w, s, z
<1>5. w = Append(s, z)
  BY <1>1, <1>2, Zenon
<1>6. Front(w) = s
  BY <1>3, <1>5, FrontAppend
<1>7. w \in Seq(Plain) /\ Len(w) = Len(s) + 1 /\ w[Len(w)] = z /\ w[2] = s[2]
  BY <1>3, <1>4, <1>5, NameTlv
<1>8. ~open_frame(w)
  BY <1>4, <1>6, <1>7, Zenon DEF open_frame
<1>9. w \in Seq(Byte)
  BY <1>7, SeqMonotonic DEF Byte
<1>10. Len(Name(f)) \in Nat
  BY NameTlv
<1>11. Len(w) - 3 = Len(Name(f)) /\ Len(w) \in Nat /\ Len(w) >= 3
  BY <1>3, <1>7, <1>10
<1>12. Announced(w)
  BY <1>3, <1>7, <1>9, <1>11, Zenon DEF Announced
<1> QED
  BY <1>8, <1>12 DEF w

\* A header that announces more than a packet, and nothing else.
LEMMA AbsurdFrame ==
  ASSUME NEW f, FrameOK(f), f.kind = "absurd"
  PROVE  /\ Bytes(f) \in Seq(Byte) /\ Len(Bytes(f)) = 2
         /\ Bytes(f)[2][1] + HeaderLen + CrcLen > MaxPacket
<1> DEFINE n == MaxPacket - HeaderLen - CrcLen + 1
           x == <<GETSET_REQ>>
           y == <<n>>
<1>1. n \in Nat /\ n + HeaderLen + CrcLen > MaxPacket
  BY Bounds DEF HeaderLen, CrcLen
<1>2. Bytes(f) = <<x, y>>
  BY DEF Bytes
<1> HIDE DEF n
<1>3. x \in Plain /\ y \in Plain /\ y[1] = n
  BY <1>1, Tags DEF Plain
<1> HIDE DEF x, y
<1>4. x \in Byte /\ y \in Byte
  BY <1>3 DEF Byte
<1> QED
  BY <1>1, <1>2, <1>3, <1>4

\* What the thread does with a whole frame, by its record.
LEMMA FrameServed ==
  ASSUME NEW f, FrameOK(f), f.kind # "absurd"
  PROVE  /\ Announced(Bytes(f)) /\ Len(Bytes(f)) <= MaxPacket
         /\ Breaks(f) => ~open_frame(Bytes(f))
         /\ ~Breaks(f) => open_frame(Bytes(f))
         /\ ~Breaks(f) => (Passed(Bytes(f)) <=> ~Asks(f))
         /\ Asks(f) => Request(read_tlvs(Payload(Bytes(f))).tlvs) = Wants(f)
<1>0. f.kind \in Kinds /\ Len(Bytes(f)) <= MaxPacket
  BY DEF FrameOK
<1>1. CASE f.kind = "get"
  BY <1>0, <1>1, GetFrame DEF Breaks
<1>2. CASE f.kind = "set"
  BY <1>0, <1>2, SetFrame DEF Breaks
<1>3. CASE f.kind \in {"other", "noname", "short"}
  BY <1>0, <1>3, PassedFrame DEF Breaks
<1>4. CASE f.kind = "badcrc"
  BY <1>0, <1>4, BadCrcFrame DEF Breaks, Asks
<1> QED
  BY <1>0, <1>1, <1>2, <1>3, <1>4 DEF Kinds

-----------------------------------------------------------------------------
(* Replies *)

\* A reply fits a packet, and the client takes it for the value or the error it is.
LEMMA ReplyIs ==
  ASSUME NEW tag \in {GETSET_VALUE, ERROR_MESSAGE},
         NEW name, IsText(name), Len(name) + 1 < NameCap,
         NEW v, IsText(v), Len(v) + 1 < LengthCap, Len(v) < ValueCap
  PROVE  /\ Announced(Reply(tag, name, v)) /\ Len(Reply(tag, name, v)) <= MaxPacket
         /\ open_frame(Reply(tag, name, v)) /\ Reply(tag, name, v)[1] = <<GETSET_RPY>>
         /\ read_tlvs(Payload(Reply(tag, name, v))).ok
         /\ Answer(read_tlvs(Payload(Reply(tag, name, v))).tlvs) = Outcome(tag = GETSET_VALUE, v)
<1> DEFINE a == name \o Nul
           b == v \o Nul
           w1 == write_tlv(GETSET_NAME, a)
           w2 == write_tlv(tag, b)
           w == Reply(tag, name, v)
           ts == read_tlvs(Payload(w)).tlvs
<1>1. a \in Seq(Plain) /\ Len(a) = Len(name) + 1 /\ Len(name) \in Nat
  BY TextPlain
<1>2. b \in Seq(Plain) /\ Len(b) = Len(v) + 1 /\ Len(v) \in Nat
  BY TextPlain
<1>3. CString(b) = v
  BY CStringNul
<1>4. w = seal_frame(GETSET_RPY, w1 \o w2)
  BY DEF Reply, write_tlv_str
<1>t. tag \in Nat /\ GETSET_NAME \in Nat /\ tag # GETSET_NAME
  BY Tags
<1> HIDE DEF a, b, w
<1>5. IsTlv(GETSET_NAME, a) /\ IsTlv(tag, b)
  <2>1. Len(a) < LengthCap /\ Len(b) < LengthCap
    BY <1>1, <1>2, Bounds
  <2> QED
    BY <1>1, <1>2, <1>t, <2>1 DEF IsTlv
<1>6. w1 \in Seq(Plain) /\ Len(w1) <= Len(a) + 3 /\ Len(w1) \in Nat
  <2>1. w1 \in Seq(Plain) /\ Len(w1) = Head2(a) + Len(a)
    BY <1>5, <1>t, WriteIs DEF IsTlv
  <2> HIDE DEF w1
  <2> QED
    BY <1>1, <2>1 DEF Head2
<1>7. w2 \in Seq(Plain) /\ Len(w2) <= Len(b) + 3 /\ Len(w2) \in Nat
  <2>1. w2 \in Seq(Plain) /\ Len(w2) = Head2(b) + Len(b)
    BY <1>5, <1>t, WriteIs DEF IsTlv
  <2> HIDE DEF w2
  <2> QED
    BY <1>2, <2>1 DEF Head2
<1>8. read_tlvs(w1 \o w2) = [ok |-> TRUE, tlvs |-> <<Tlv(GETSET_NAME, a), Tlv(tag, b)>>]
  BY <1>5, ReadsTwoTlvs
<1> HIDE DEF w1, w2
<1>9. w1 \o w2 \in Seq(Plain) /\ Len(w1 \o w2) = Len(w1) + Len(w2)
  BY <1>6, <1>7
<1>10. /\ Announced(w) /\ open_frame(w) /\ w[1] = <<GETSET_RPY>>
       /\ Payload(w) = w1 \o w2 /\ Len(w) = Len(w1 \o w2) + 3
  BY <1>4, <1>9, SealAnnounced, Tags
<1>11. Len(w) <= MaxPacket
  BY <1>1, <1>2, <1>6, <1>7, <1>9, <1>10, Bounds
<1>12. read_tlvs(Payload(w)).ok /\ ts = <<Tlv(GETSET_NAME, a), Tlv(tag, b)>>
  BY <1>8, <1>10
<1> HIDE DEF ts
<1>13. LastOf(ts, tag, Nat) = {b}
  <2>1. Len(b) \in Nat
    BY <1>2
  <2> DEFINE sizes == Nat
  <2> HIDE DEF sizes
  <2>2. LastOf(ts, tag, sizes)
          = IF GETSET_NAME = tag /\ Len(a) \in sizes THEN {a}
            ELSE IF tag = tag /\ Len(b) \in sizes THEN {b} ELSE {}
    BY <1>12, <1>t, LastOfTwo, Zenon
  <2> QED
    BY <1>t, <2>1, <2>2, Zenon DEF sizes
<1>14. tag = GETSET_VALUE => LastOf(ts, ERROR_MESSAGE, Nat) = {}
  BY <1>12, Tags, LastOfTwo, Zenon
<1>15. (CHOOSE u \in {b} : TRUE) = b
  OBVIOUS
<1>16. CASE tag = GETSET_VALUE
  <2>1. Answer(ts) = Outcome(TRUE, v)
    BY <1>3, <1>13, <1>14, <1>15, <1>16 DEF Answer
  <2> QED
    BY <1>10, <1>11, <1>12, <1>16, <2>1 DEF w, ts
<1>17. CASE tag = ERROR_MESSAGE
  <2>1. Answer(ts) = Outcome(FALSE, v)
    BY <1>3, <1>13, <1>15, <1>17 DEF Answer
  <2>2. (tag = GETSET_VALUE) = FALSE
    BY <1>17, Tags
  <2> QED
    BY <1>10, <1>11, <1>12, <2>1, <2>2 DEF w, ts
<1> QED
  BY <1>16, <1>17

-----------------------------------------------------------------------------
(* What a script asks for *)

Sound(s, n) == \A i \in 1 .. n : ~Breaks(s[i])
Grown(s, n, m) == IF Asks(s[n]) /\ \A i \in 1 .. n : ~Breaks(s[i]) THEN Append(m, Wants(s[n])) ELSE m

\* The function in Meant.
MeantAt(s) == CHOOSE t : t = [n \in 0 .. Len(s) |-> IF n = 0 THEN <<>> ELSE Grown(s, n, t[n - 1])]

\* The recursive function in Meant exists.
LEMMA MeantDef ==
  ASSUME NEW s, Len(s) \in Nat
  PROVE  /\ MeantAt(s)[0] = <<>>
         /\ \A n \in 1 .. Len(s) : MeantAt(s)[n] = Grown(s, n, MeantAt(s)[n - 1])
         /\ Meant(s) = MeantAt(s)[Len(s)]
<1> DEFINE Is(N, t) == t = [n \in 0 .. N |-> IF n = 0 THEN <<>> ELSE Grown(s, n, t[n - 1])]
           S == {N \in Nat : \E t : Is(N, t)}
<1>1. 0 \in S
  <2>1. Is(0, [n \in 0 .. 0 |-> <<>>])
    OBVIOUS
  <2> HIDE DEF Is
  <2> QED
    BY <2>1
<1>2. ASSUME NEW N \in Nat, N \in S PROVE N + 1 \in S
  <2>1. PICK t : Is(N, t)
    BY <1>2
  <2> DEFINE u == [n \in 0 .. N + 1 |-> IF n = N + 1 THEN Grown(s, N + 1, t[N]) ELSE t[n]]
  <2>2. ASSUME NEW n \in 0 .. N + 1
        PROVE  u[n] = IF n = 0 THEN <<>> ELSE Grown(s, n, u[n - 1])
    <3>1. CASE n = N + 1
      <4>1. n # 0 /\ n - 1 \in 0 .. N + 1 /\ n - 1 # N + 1 /\ n - 1 = N
        BY <3>1
      <4>2. u[n - 1] = t[N] /\ u[n] = Grown(s, n, t[N])
        BY <3>1, <4>1
      <4> HIDE DEF u
      <4> QED
        BY <4>1, <4>2
    <3>2. CASE n # N + 1
      <4>1. n \in 0 .. N /\ (n # 0 => n - 1 \in 0 .. N + 1 /\ n - 1 # N + 1)
        BY <3>2
      <4>2. t[n] = IF n = 0 THEN <<>> ELSE Grown(s, n, t[n - 1])
        BY <2>1, <4>1
      <4>3. u[n] = t[n] /\ (n # 0 => u[n - 1] = t[n - 1])
        BY <3>2, <4>1
      <4> HIDE DEF u
      <4> QED
        BY <4>2, <4>3
    <3> QED
      BY <3>1, <3>2
  <2>3. Is(N + 1, u)
    BY <2>2
  <2> HIDE DEF u, Is
  <2> QED
    BY <2>3
<1>3. Nat \subseteq S
  <2> HIDE DEF S
  <2> QED
    BY <1>1, <1>2, NatSetInduction
<1>4. \E t : Is(Len(s), t)
  <2>1. Len(s) \in S
    <3> HIDE DEF S
    <3> QED
      BY <1>3
  <2> HIDE DEF Is
  <2> QED
    BY <2>1
<1>5. MeantAt(s) = [n \in 0 .. Len(s) |-> IF n = 0 THEN <<>> ELSE Grown(s, n, MeantAt(s)[n - 1])]
  BY <1>4 DEF MeantAt
<1>6. Meant(s) = MeantAt(s)[Len(s)]
  BY DEF Meant, MeantAt, Grown
<1>7. MeantAt(s)[0] = <<>>
  BY <1>5
<1>8. ASSUME NEW n \in 1 .. Len(s) PROVE MeantAt(s)[n] = Grown(s, n, MeantAt(s)[n - 1])
  BY <1>5
<1> QED
  BY <1>6, <1>7, <1>8

\* The requests of a script.
Requests(s) == {Wants(s[i]) : i \in {i \in 1 .. Len(s) : Asks(s[i])}}

\* One sequence begins with the other.
Begins(a, b) == Len(a) <= Len(b) /\ \A k \in 1 .. Len(a) : a[k] = b[k]

\* What n frames ask for is the beginning of what the script asks for.
LEMMA MeantGrows ==
  ASSUME NEW s, Len(s) \in Nat
  PROVE  /\ \A n \in 0 .. Len(s) : MeantAt(s)[n] \in Seq(Requests(s))
         /\ \A n \in 0 .. Len(s) : Begins(MeantAt(s)[n], Meant(s))
<1> DEFINE M == MeantAt(s)
           L == Len(s)
           R == Requests(s)
<1>0. /\ M[0] = <<>> /\ L \in Nat
      /\ \A n \in 1 .. L : M[n] = Grown(s, n, M[n - 1])
      /\ Meant(s) = M[L]
  BY MeantDef
<1>w. ASSUME NEW n \in 1 .. L, Asks(s[n]) PROVE Wants(s[n]) \in R
  BY <1>w DEF Requests
<1> HIDE DEF M, L, R
<1>1. \A n \in 0 .. L : M[n] \in Seq(R)
  <2> DEFINE I == {n \in Nat : n <= L => M[n] \in Seq(R)}
  <2>1. 0 \in I
    <3>1. <<>> \in Seq(R)
      OBVIOUS
    <3>2. M[0] \in Seq(R)
      BY <1>0, <3>1, Zenon
    <3> QED
      BY <3>2
  <2>2. ASSUME NEW n \in Nat, n \in I PROVE n + 1 \in I
    <3> SUFFICES ASSUME n + 1 <= L PROVE M[n + 1] \in Seq(R)
      OBVIOUS
    <3>1. n + 1 \in 1 .. L /\ (n + 1) - 1 = n /\ n <= L
      BY <1>0
    <3>2. M[n + 1] = Grown(s, n + 1, M[n]) /\ M[n] \in Seq(R)
      BY <1>0, <2>2, <3>1
    <3>3. CASE M[n + 1] = M[n]
      BY <3>2, <3>3
    <3>4. CASE Asks(s[n + 1]) /\ M[n + 1] = Append(M[n], Wants(s[n + 1]))
      <4>1. Wants(s[n + 1]) \in R
        BY <1>w, <3>1, <3>4
      <4> DEFINE x == Wants(s[n + 1])
      <4> HIDE DEF x
      <4>2. x \in R /\ M[n + 1] = Append(M[n], x) /\ M[n] \in Seq(R)
        BY <3>2, <3>4, <4>1 DEF x
      <4> QED
        BY <4>2
    <3> QED
      BY <3>2, <3>3, <3>4 DEF Grown
  <2>3. Nat \subseteq I
    <3> HIDE DEF I
    <3> QED
      BY <2>1, <2>2, NatSetInduction
  <2> QED
    BY <1>0, <2>3
<1>2. ASSUME NEW n \in 0 .. L PROVE Begins(M[n], M[L])
  <2> DEFINE I == {d \in Nat : n + d <= L => Begins(M[n], M[n + d])}
  <2>1. 0 \in I
    <3>1. M[n] \in Seq(R) /\ n + 0 = n
      BY <1>1
    <3> QED
      BY <3>1 DEF Begins
  <2>2. ASSUME NEW d \in Nat, d \in I PROVE d + 1 \in I
    <3> SUFFICES ASSUME n + (d + 1) <= L PROVE Begins(M[n], M[n + (d + 1)])
      OBVIOUS
    <3> DEFINE m == n + d
    <3>1. m \in Nat /\ n + (d + 1) = m + 1 /\ m + 1 \in 1 .. L /\ (m + 1) - 1 = m /\ m \in 0 .. L
      BY <1>0
    <3>2. Begins(M[n], M[m])
      BY <1>0, <2>2, <3>1
    <3>3. M[m + 1] = Grown(s, m + 1, M[m]) /\ M[m] \in Seq(R) /\ M[n] \in Seq(R)
      BY <1>0, <1>1, <3>1
    <3> HIDE DEF m
    <3>4. CASE M[m + 1] = M[m]
      BY <3>1, <3>2, <3>4
    <3>5. CASE Asks(s[m + 1]) /\ M[m + 1] = Append(M[m], Wants(s[m + 1]))
      <4> DEFINE x == Wants(s[m + 1])
                 a == M[n]
                 b == M[m]
      <4>1. x \in R /\ a \in Seq(R) /\ b \in Seq(R) /\ M[m + 1] = Append(b, x)
        BY <1>w, <3>1, <3>3, <3>5
      <4> HIDE DEF x, a, b
      <4>2. Begins(a, b)
        BY <3>2 DEF a, b
      <4>3. Begins(a, Append(b, x))
        BY <4>1, <4>2 DEF Begins
      <4> QED
        BY <3>1, <4>1, <4>3 DEF a
    <3> QED
      BY <3>3, <3>4, <3>5 DEF Grown
  <2>3. Nat \subseteq I
    <3> HIDE DEF I
    <3> QED
      BY <2>1, <2>2, NatSetInduction
  <2>4. L - n \in Nat /\ n + (L - n) = L /\ L <= L
    BY <1>0
  <2>5. L - n \in I
    <3> HIDE DEF I
    <3> QED
      BY <2>3, <2>4
  <2> QED
    BY <2>4, <2>5
<1> QED
  BY <1>0, <1>1, <1>2 DEF M, L, R

-----------------------------------------------------------------------------
(* Reading a stream of frames *)

\* The bytes of a stream between two places.
Slice(W, b, e) == SubSeq(W, b + 1, e)

\* The bytes between two places, one by one.
LEMMA SliceIs ==
  ASSUME NEW B, NEW W \in Seq(B), NEW b \in Nat, NEW e \in Nat, b <= e, e <= Len(W)
  PROVE  /\ Slice(W, b, e) \in Seq(B) /\ Len(Slice(W, b, e)) = e - b
         /\ \A i \in 1 .. e - b : Slice(W, b, e)[i] = W[b + i]
<1> DEFINE m == b + 1
           q == SubSeq(W, m, e)
<1>1. m \in Int /\ e \in Int /\ e - m + 1 = e - b /\ \A j \in m .. e : W[j] \in B
  OBVIOUS
<1>2. \A i \in 1 .. e - b : m + i - 1 = b + i
  OBVIOUS
<1>m. m <= e => e - m + 1 = e - b
  OBVIOUS
<1>n. ~(m <= e) => e - b = 0
  OBVIOUS
<1> HIDE DEF m
<1>3. /\ q \in Seq(B) /\ Len(q) = IF m <= e THEN e - m + 1 ELSE 0
      /\ \A i \in 1 .. e - m + 1 : q[i] = W[m + i - 1]
  BY <1>1, SubSeqProperties
<1> HIDE DEF q
<1>4. q \in Seq(B) /\ Len(q) = e - b /\ \A i \in 1 .. e - b : q[i] = W[b + i]
  BY <1>1, <1>2, <1>3, <1>m, <1>n
<1> QED
  BY <1>4 DEF Slice, q, m

\* A slice of a slice.
LEMMA SliceOf ==
  ASSUME NEW B, NEW W \in Seq(B), NEW b \in Nat, NEW e \in Nat, b <= e, e <= Len(W),
         NEW i \in Nat, NEW j \in Nat, i <= j, j <= e - b
  PROVE  Slice(Slice(W, b, e), i, j) = Slice(W, b + i, b + j)
<1> DEFINE s == Slice(W, b, e)
           u == Slice(s, i, j)
           b2 == b + i
           e2 == b + j
           v == Slice(W, b2, e2)
<1>1. s \in Seq(B) /\ Len(s) = e - b /\ \A x \in 1 .. e - b : s[x] = W[b + x]
  BY SliceIs
<1> HIDE DEF s
<1>c. j <= Len(s) /\ s \in Seq(B)
  BY <1>1
<1>2. u \in Seq(B) /\ Len(u) = j - i /\ \A x \in 1 .. j - i : u[x] = s[i + x]
  BY <1>c, SliceIs, Zenon
<1>3. b2 \in Nat /\ e2 \in Nat /\ b2 <= e2 /\ e2 <= Len(W) /\ e2 - b2 = j - i
  OBVIOUS
<1>a. \A x \in 1 .. j - i : i + x \in 1 .. e - b /\ b2 + x = b + (i + x)
  OBVIOUS
<1> HIDE DEF b2, e2, u
<1>4. v \in Seq(B) /\ Len(v) = e2 - b2 /\ \A x \in 1 .. e2 - b2 : v[x] = W[b2 + x]
  BY <1>3, SliceIs
<1> HIDE DEF v
<1>5. ASSUME NEW x \in 1 .. j - i PROVE u[x] = v[x]
  BY <1>1, <1>2, <1>3, <1>4, <1>5, <1>a
<1>6. Len(u) = j - i /\ Len(v) = j - i
  BY <1>2, <1>3, <1>4
<1>7. u = v
  BY <1>2, <1>4, <1>5, <1>6, SeqEqual
<1> QED
  BY <1>7 DEF s, u, v, b2, e2

\* Adjacent slices make one.
LEMMA SliceCat ==
  ASSUME NEW B, NEW W \in Seq(B), NEW b \in Nat, NEW m \in Nat, NEW e \in Nat,
         b <= m, m <= e, e <= Len(W)
  PROVE  Slice(W, b, m) \o Slice(W, m, e) = Slice(W, b, e)
<1> DEFINE x == b + 1
<1>1. x \in 1 .. Len(W) + 1 /\ m \in x - 1 .. Len(W) /\ e \in m .. Len(W)
  OBVIOUS
<1> HIDE DEF x
<1>2. SubSeq(W, x, m) \o SubSeq(W, m + 1, e) = SubSeq(W, x, e)
  BY <1>1, ConcatAdjacentSubSeq
<1> QED
  BY <1>2 DEF Slice, x

\* A frame of the stream.
LEMMA SlicePiece ==
  ASSUME NEW B, NEW fr \in Seq(Seq(B)), NEW n \in 0 .. Len(fr), n < Len(fr)
  PROVE  /\ Slice(FlattenSeq(fr), Off(fr, n), Off(fr, n + 1)) = fr[n + 1]
         /\ Off(fr, n) \in Nat /\ Off(fr, n + 1) \in Nat /\ Len(fr[n + 1]) \in Nat
         /\ Off(fr, n + 1) = Off(fr, n) + Len(fr[n + 1])
         /\ Off(fr, n + 1) <= Len(FlattenSeq(fr))
         /\ \A j \in 1 .. Len(fr[n + 1]) : FlattenSeq(fr)[Off(fr, n) + j] = fr[n + 1][j]
<1> DEFINE W == FlattenSeq(fr)
           b == Off(fr, n)
           e == Off(fr, n + 1)
           w == fr[n + 1]
           q == Slice(W, b, e)
<1>0. n + 1 \in 1 .. Len(fr) /\ (n + 1) - 1 = n /\ n + 1 \in 0 .. Len(fr) /\ n \in 0 .. Len(fr)
  OBVIOUS
<1>1. W \in Seq(B)
  BY StreamIsPieces
<1>2. b \in Nat /\ b <= Len(W)
  BY <1>0, StreamIsPieces
<1>3. e \in Nat /\ e <= Len(W)
  BY <1>0, StreamIsPieces
<1>4. \A i \in 1 .. Len(fr) : Off(fr, i) = Off(fr, i - 1) + Len(fr[i])
  BY StreamIsPieces
<1>5. \A i \in 1 .. Len(fr) :
        \A j \in 1 .. Len(fr[i]) : FlattenSeq(fr)[Off(fr, i - 1) + j] = fr[i][j]
  BY StreamIsPieces
<1>6. e = b + Len(w)
  BY <1>0, <1>4
<1>7. \A j \in 1 .. Len(w) : W[b + j] = w[j]
  BY <1>0, <1>5
<1>8. w \in Seq(B)
  BY <1>0
<1> HIDE DEF W, b, e, w
<1>a. b <= e
  BY <1>2, <1>6, <1>8
<1>9. q \in Seq(B) /\ Len(q) = e - b /\ \A j \in 1 .. e - b : q[j] = W[b + j]
  BY <1>1, <1>2, <1>3, <1>a, SliceIs
<1> HIDE DEF q
<1>10. q = w
  <2>1. e - b = Len(w)
    BY <1>2, <1>6, <1>8
  <2>2. Len(q) = Len(w) /\ \A j \in 1 .. Len(q) : q[j] = w[j]
    BY <1>7, <1>9, <2>1
  <2> QED
    BY <1>8, <1>9, <2>2, SeqEqual
<1>11. Len(w) \in Nat
  BY <1>8
<1> QED
  BY <1>2, <1>3, <1>6, <1>7, <1>10, <1>11, Zenon DEF q, W, b, e, w

\* Of a stream of frames n were taken; buf is read of the next one, up to byte
\* b, and rest is under way, up to byte e.
Cut(fr, n, b, e, buf, rest) ==
  /\ n \in 0 .. Len(fr) /\ b \in Nat /\ e \in Nat
  /\ Off(fr, n) <= b /\ b <= e /\ e <= Len(FlattenSeq(fr))
  /\ n < Len(fr) => b <= Off(fr, n + 1)
  /\ buf = Slice(FlattenSeq(fr), Off(fr, n), b)
  /\ rest = Slice(FlattenSeq(fr), b, e)

\* What is read of a frame is its beginning.
LEMMA CutFacts ==
  ASSUME NEW B, NEW fr \in Seq(Seq(B)), NEW n, NEW b, NEW e, NEW buf, NEW rest,
         Cut(fr, n, b, e, buf, rest)
  PROVE  /\ buf \in Seq(B) /\ Len(buf) = b - Off(fr, n) /\ Len(buf) \in Nat
         /\ rest \in Seq(B) /\ Len(rest) = e - b /\ Len(rest) \in Nat
         /\ n = Len(fr) => buf = <<>> /\ rest = <<>>
         /\ n < Len(fr) => /\ Len(buf) <= Len(fr[n + 1])
                           /\ \A j \in 1 .. Len(buf) : buf[j] = fr[n + 1][j]
<1> DEFINE W == FlattenSeq(fr)
           o == Off(fr, n)
<1>0. W \in Seq(B)
  BY StreamIsPieces
<1>1. /\ n \in 0 .. Len(fr) /\ b \in Nat /\ e \in Nat /\ o <= b /\ b <= e /\ e <= Len(W)
      /\ buf = Slice(W, o, b) /\ rest = Slice(W, b, e)
  BY DEF Cut
<1>2. o \in Nat
  BY <1>1, StreamIsPieces
<1>3. n = Len(fr) => o = Len(W)
  BY StreamIsPieces
<1> HIDE DEF W, o
<1>4. Len(W) \in Nat
  BY <1>0
<1>5. buf \in Seq(B) /\ Len(buf) = b - o /\ \A i \in 1 .. b - o : buf[i] = W[o + i]
  <2>1. b <= Len(W)
    BY <1>1, <1>4
  <2> QED
    BY <1>0, <1>1, <1>2, <2>1, SliceIs
<1>6. rest \in Seq(B) /\ Len(rest) = e - b
  BY <1>0, <1>1, SliceIs
<1>7. b - o \in Nat /\ e - b \in Nat
  BY <1>1, <1>2
<1>8. ASSUME n = Len(fr) PROVE buf = <<>> /\ rest = <<>>
  <2>1. Len(buf) = 0 /\ Len(rest) = 0
    BY <1>1, <1>2, <1>3, <1>4, <1>5, <1>6, <1>8
  <2> QED
    BY <1>5, <1>6, <2>1
<1>9. ASSUME n < Len(fr)
      PROVE  /\ Len(buf) <= Len(fr[n + 1])
             /\ \A j \in 1 .. Len(buf) : buf[j] = fr[n + 1][j]
  <2> DEFINE w == fr[n + 1]
             e2 == Off(fr, n + 1)
  <2>1. b <= e2
    BY <1>9 DEF Cut
  <2>2. e2 = o + Len(w) /\ Len(w) \in Nat
    BY <1>1, <1>9, SlicePiece DEF o
  <2>3. \A j \in 1 .. Len(w) : W[o + j] = w[j]
    BY <1>1, <1>9, SlicePiece DEF o, W
  <2> HIDE DEF w, e2
  <2>4. Len(buf) <= Len(w)
    BY <1>1, <1>2, <1>5, <2>1, <2>2
  <2>5. ASSUME NEW j \in 1 .. Len(buf) PROVE buf[j] = w[j]
    <3>1. Len(buf) = b - o /\ Len(buf) \in Nat
      BY <1>5, <1>7
    <3>2. j \in 1 .. b - o /\ j \in 1 .. Len(w)
      BY <2>2, <2>4, <3>1
    <3>3. buf[j] = W[o + j] /\ W[o + j] = w[j]
      BY <1>5, <2>3, <3>2
    <3> QED
      BY <3>3
  <2> QED
    BY <2>4, <2>5 DEF w
<1> QED
  BY <1>5, <1>6, <1>7, <1>8, <1>9 DEF o

\* Nothing is read yet, with the whole stream or nothing of it under way.
LEMMA CutStart ==
  ASSUME NEW B, NEW fr \in Seq(Seq(B))
  PROVE  /\ Cut(fr, 0, 0, Len(FlattenSeq(fr)), <<>>, FlattenSeq(fr))
         /\ Cut(fr, 0, 0, Off(fr, 0), <<>>, <<>>)
<1> DEFINE W == FlattenSeq(fr)
           L == Len(W)
<1>0. W \in Seq(B) /\ L \in Nat
  <2>1. W \in Seq(B)
    BY StreamIsPieces
  <2> HIDE DEF W
  <2> QED
    BY <2>1
<1>1. Off(fr, 0) = 0
  BY StreamIsPieces
<1>2. 0 \in 0 .. Len(fr)
  OBVIOUS
<1>3. 0 < Len(fr) => 0 <= Off(fr, 0 + 1)
  BY <1>2, SlicePiece
<1> HIDE DEF W
<1>4. Slice(W, 0, 0) = <<>> /\ Slice(W, 0, L) = W
  <2>1. Slice(W, 0, 0) \in Seq(B) /\ Len(Slice(W, 0, 0)) = 0 - 0
    BY <1>0, SliceIs
  <2>2. SubSeq(W, 1, L) = W
    BY <1>0, SubSeqFull
  <2> QED
    BY <2>1, <2>2 DEF Slice
<1>5. Cut(fr, 0, 0, L, <<>>, W)
  BY <1>0, <1>1, <1>2, <1>3, <1>4 DEF Cut, W
<1>6. Cut(fr, 0, 0, 0, <<>>, <<>>)
  BY <1>0, <1>1, <1>2, <1>3, <1>4 DEF Cut, W
<1> QED
  BY <1>1, <1>5, <1>6 DEF W

\* Reading bytes of the frame moves them from what is under way to what is read.
LEMMA CutRead ==
  ASSUME NEW B, NEW fr \in Seq(Seq(B)), NEW n, NEW b, NEW e, NEW buf, NEW rest,
         Cut(fr, n, b, e, buf, rest), n < Len(fr),
         NEW k \in 1 .. Len(rest), Len(buf) + k <= Len(fr[n + 1])
  PROVE  Cut(fr, n, b + k, e, buf \o SubSeq(rest, 1, k), SubSeq(rest, k + 1, Len(rest)))
<1> DEFINE W == FlattenSeq(fr)
           o == Off(fr, n)
           c == b + k
<1>0. W \in Seq(B)
  BY StreamIsPieces
<1>1. /\ n \in 0 .. Len(fr) /\ b \in Nat /\ e \in Nat /\ o <= b /\ b <= e /\ e <= Len(W)
      /\ buf = Slice(W, o, b) /\ rest = Slice(W, b, e)
  BY DEF Cut
<1>2. o \in Nat /\ Off(fr, n + 1) = o + Len(fr[n + 1]) /\ Len(fr[n + 1]) \in Nat
  BY <1>1, SlicePiece
<1>3. Len(buf) = b - o /\ Len(rest) = e - b
  BY CutFacts
<1> HIDE DEF W
<1>4. Len(W) \in Nat
  BY <1>0
<1>5. c \in Nat /\ o <= c /\ c <= e /\ b <= c /\ c <= Off(fr, n + 1) /\ k \in Nat /\ k <= e - b
  <2> HIDE DEF o
  <2> QED
    BY <1>1, <1>2, <1>3
<1>6. SubSeq(rest, 1, k) = Slice(W, b, c)
  <2>1. SubSeq(rest, 1, k) = Slice(rest, 0, k)
    BY DEF Slice
  <2>2. Slice(rest, 0, k) = Slice(W, b + 0, c)
    BY <1>0, <1>1, <1>5, SliceOf
  <2>3. b + 0 = b
    BY <1>1
  <2> QED
    BY <2>1, <2>2, <2>3
<1>7. SubSeq(rest, k + 1, Len(rest)) = Slice(W, c, e)
  <2>1. SubSeq(rest, k + 1, Len(rest)) = Slice(rest, k, e - b)
    BY <1>3 DEF Slice
  <2>2. e - b \in Nat /\ k <= e - b /\ e - b <= e - b /\ b + (e - b) = e
    BY <1>1, <1>5
  <2>3. Slice(rest, k, e - b) = Slice(W, c, b + (e - b))
    BY <1>0, <1>1, <1>5, <2>2, SliceOf
  <2> QED
    BY <2>1, <2>2, <2>3
<1> HIDE DEF c, o
<1>8. Slice(W, o, b) \o Slice(W, b, c) = Slice(W, o, c)
  <2>1. c <= Len(W)
    BY <1>1, <1>4, <1>5
  <2> QED
    BY <1>0, <1>1, <1>2, <1>5, <2>1, SliceCat
<1> DEFINE x == buf \o SubSeq(rest, 1, k)
           y == SubSeq(rest, k + 1, Len(rest))
<1>9. x = Slice(W, o, c) /\ y = Slice(W, c, e)
  BY <1>1, <1>6, <1>7, <1>8
<1> HIDE DEF x, y
<1>10. Cut(fr, n, c, e, x, y)
  BY <1>1, <1>5, <1>9 DEF Cut, W, o
<1> QED
  BY <1>10 DEF x, y, c

\* A frame that is read whole is the next one.
LEMMA CutNext ==
  ASSUME NEW B, NEW fr \in Seq(Seq(B)), NEW n, NEW b, NEW e, NEW buf, NEW rest,
         Cut(fr, n, b, e, buf, rest), n < Len(fr), Len(buf) = Len(fr[n + 1])
  PROVE  /\ buf = fr[n + 1] /\ b = Off(fr, n + 1)
         /\ Cut(fr, n + 1, b, e, <<>>, rest)
<1> DEFINE W == FlattenSeq(fr)
           o == Off(fr, n)
           m == n + 1
<1>0. W \in Seq(B)
  BY StreamIsPieces
<1>1. /\ n \in 0 .. Len(fr) /\ b \in Nat /\ e \in Nat /\ o <= b /\ b <= e /\ e <= Len(W)
      /\ buf = Slice(W, o, b) /\ rest = Slice(W, b, e)
  BY DEF Cut
<1>2. /\ o \in Nat /\ Off(fr, m) = o + Len(fr[m]) /\ Len(fr[m]) \in Nat
      /\ Slice(W, o, Off(fr, m)) = fr[m]
  BY <1>1, SlicePiece
<1>3. Len(buf) = b - o
  BY CutFacts
<1>4. b = Off(fr, m)
  <2> HIDE DEF o, m
  <2> DEFINE x == Len(fr[m])
             y == Off(fr, m)
  <2>1. x = b - o
    BY <1>3 DEF m
  <2>2. y = o + x /\ x \in Nat /\ o \in Nat /\ b \in Nat
    BY <1>1, <1>2
  <2> HIDE DEF x, y
  <2>3. b = y
    BY <2>1, <2>2
  <2> QED
    BY <2>3 DEF y
<1>5. buf = fr[m]
  BY <1>1, <1>2, <1>4, Zenon
<1>6. m \in 0 .. Len(fr)
  BY <1>1
<1>7. m < Len(fr) => b <= Off(fr, m + 1)
  <2> SUFFICES ASSUME m < Len(fr) PROVE b <= Off(fr, m + 1)
    OBVIOUS
  <2> HIDE DEF m
  <2>1. Off(fr, m + 1) = Off(fr, m) + Len(fr[m + 1]) /\ Len(fr[m + 1]) \in Nat
    BY <1>6, SlicePiece
  <2> QED
    BY <1>1, <1>4, <2>1
<1> HIDE DEF W
<1>8. Slice(W, b, b) = <<>>
  <2>1. b <= Len(W) /\ b - b = 0 /\ b <= b
    BY <1>0, <1>1
  <2>2. Slice(W, b, b) \in Seq(B) /\ Len(Slice(W, b, b)) = b - b
    BY <1>0, <1>1, <2>1, SliceIs
  <2> QED
    BY <2>1, <2>2
<1> HIDE DEF m
<1>9. Cut(fr, m, b, e, <<>>, rest)
  <2>1. Off(fr, m) <= b
    BY <1>1, <1>4
  <2> QED
    BY <1>1, <1>4, <1>6, <1>7, <1>8, <2>1 DEF Cut, W
<1> QED
  BY <1>4, <1>5, <1>9 DEF m

\* The end of what is under way is lost.
LEMMA CutLess ==
  ASSUME NEW B, NEW fr \in Seq(Seq(B)), NEW n, NEW b, NEW e, NEW buf, NEW rest,
         Cut(fr, n, b, e, buf, rest), NEW k \in 0 .. Len(rest)
  PROVE  \E e2 : Cut(fr, n, b, e2, buf, SubSeq(rest, 1, k))
<1> DEFINE W == FlattenSeq(fr)
           e2 == b + k
           y == SubSeq(rest, 1, k)
<1>0. W \in Seq(B)
  BY StreamIsPieces
<1>1. /\ b \in Nat /\ e \in Nat /\ b <= e /\ e <= Len(W) /\ rest = Slice(W, b, e)
  BY DEF Cut
<1>2. Len(rest) = e - b
  BY CutFacts
<1> HIDE DEF W
<1>3. e2 \in Nat /\ b <= e2 /\ e2 <= Len(W) /\ k \in Nat /\ k <= e - b
  BY <1>0, <1>1, <1>2
<1>4. y = Slice(W, b, e2)
  <2>1. y = Slice(rest, 0, k)
    BY DEF Slice
  <2>2. Slice(rest, 0, k) = Slice(W, b + 0, e2)
    BY <1>0, <1>1, <1>3, SliceOf
  <2>3. b + 0 = b
    BY <1>1
  <2> QED
    BY <2>1, <2>2, <2>3
<1> HIDE DEF y, e2
<1>5. Cut(fr, n, b, e2, buf, y)
  BY <1>3, <1>4 DEF Cut, W
<1> QED
  BY <1>5 DEF y

\* One more frame is sent.
LEMMA CutMore ==
  ASSUME NEW B, NEW fr \in Seq(Seq(B)), NEW n, NEW b, NEW buf, NEW rest,
         NEW m \in 0 .. Len(fr), m < Len(fr), Cut(fr, n, b, Off(fr, m), buf, rest)
  PROVE  Cut(fr, n, b, Off(fr, m + 1), buf, rest \o fr[m + 1])
<1> DEFINE W == FlattenSeq(fr)
           e == Off(fr, m)
           e2 == Off(fr, m + 1)
           w == fr[m + 1]
<1>0. W \in Seq(B)
  BY StreamIsPieces
<1>1. /\ b \in Nat /\ e \in Nat /\ b <= e /\ e <= Len(W) /\ rest = Slice(W, b, e)
  BY DEF Cut
<1>2. /\ Slice(W, e, e2) = w /\ e2 \in Nat /\ e2 = e + Len(w) /\ Len(w) \in Nat
      /\ e2 <= Len(W)
  BY SlicePiece
<1> HIDE DEF w
<1>3. b <= e2 /\ e <= e2
  <2> HIDE DEF e, e2, W
  <2> QED
    BY <1>1, <1>2
<1>4. rest \o w = Slice(W, b, e2)
  <2> HIDE DEF e, e2, W
  <2> QED
    BY <1>0, <1>1, <1>2, <1>3, SliceCat
<1> DEFINE y == rest \o w
<1> HIDE DEF y
<1>5. Cut(fr, n, b, e2, buf, y)
  BY <1>2, <1>3, <1>4 DEF Cut, y
<1> QED
  BY <1>5 DEF y, w

\* A reader wants the rest of the frame.
LEMMA WantedIs ==
  ASSUME NEW w, Announced(w), NEW buf, Len(buf) \in Nat, Len(buf) <= Len(w),
         \A j \in 1 .. Len(buf) : buf[j] = w[j]
  PROVE  Wanted(buf) = IF Len(buf) < 2 THEN 2 ELSE Len(w)
<1>1. CASE Len(buf) < 2
  BY <1>1 DEF Wanted, HeaderLen
<1>2. CASE ~(Len(buf) < 2)
  <2>1. 2 \in 1 .. Len(buf)
    BY <1>2
  <2>2. buf[2] = <<Len(w) - 3>> /\ Len(w) \in Nat
    BY <2>1 DEF Announced
  <2>3. buf[2][1] = Len(w) - 3
    BY <2>2
  <2> QED
    BY <1>2, <2>2, <2>3 DEF Wanted, HeaderLen, CrcLen
<1> QED
  BY <1>1, <1>2

-----------------------------------------------------------------------------
(* Scripts and their replies *)

\* The frames a script puts on the wire.
Frames(s) == [i \in DOMAIN s |-> Bytes(s[i])]

\* What ScriptAssumption says of the frames of a script.
LEMMA ScriptFacts ==
  ASSUME NEW s \in Scripts
  PROVE  /\ Len(s) \in Nat /\ DOMAIN s = 1 .. Len(s)
         /\ \A i \in 1 .. Len(s) : FrameOK(s[i])
         /\ Frames(s) \in Seq(Seq(Byte)) /\ Len(Frames(s)) = Len(s)
         /\ \A i \in 1 .. Len(s) : Frames(s)[i] = Bytes(s[i])
<1>1. s \in Seq(Range(s)) /\ \A i \in DOMAIN s :
         /\ s[i].kind \in Kinds
         /\ IsText(s[i].name) /\ Len(s[i].name) + 1 < LengthCap
         /\ IsText(s[i].value) /\ Len(s[i].value) + 1 < LengthCap
         /\ s[i].kind # "absurd" => Len(Bytes(s[i])) <= MaxPacket
  BY ScriptAssumption, Zenon
<1>2. Len(s) \in Nat /\ DOMAIN s = 1 .. Len(s)
  BY <1>1
<1>3. ASSUME NEW i \in 1 .. Len(s) PROVE FrameOK(s[i])
  BY <1>1, <1>2, Zenon DEF FrameOK
<1>4. ASSUME NEW i \in 1 .. Len(s) PROVE Bytes(s[i]) \in Seq(Byte)
  <2>1. CASE s[i].kind = "absurd"
    BY <1>3, <2>1, AbsurdFrame
  <2>2. CASE s[i].kind # "absurd"
    BY <1>3, <2>2, FrameServed DEF Announced
  <2> QED
    BY <2>1, <2>2
<1> DEFINE L == Len(s)
           fr == Frames(s)
<1>5. fr = [i \in 1 .. L |-> Bytes(s[i])]
  BY <1>2 DEF Frames
<1> HIDE DEF L, fr
<1>6. L \in Nat /\ \A i \in 1 .. L : Bytes(s[i]) \in Seq(Byte)
  BY <1>2, <1>4 DEF L
<1>7. fr \in [1 .. L -> Seq(Byte)]
  BY <1>5, <1>6
<1>8. fr \in Seq(Seq(Byte)) /\ Len(fr) = L
  BY <1>6, <1>7
<1>9. \A i \in 1 .. L : fr[i] = Bytes(s[i])
  BY <1>5
<1> QED
  BY <1>2, <1>3, <1>8, <1>9 DEF L, fr

\* What a request asks: a name that fits, and no value or one that fits.
IsRequest(r) ==
  \E f : FrameOK(f) /\ Asks(f) /\ r = Wants(f)

\* What the daemon keeps as the value of a parameter.
Kept(v) == IsText(v) /\ Len(v) < ValueCap /\ Len(v) + 1 < LengthCap

\* What a script asks for are requests.
LEMMA ScriptRequests ==
  ASSUME NEW s \in Scripts
  PROVE  \A r \in Requests(s) : IsRequest(r)
<1> SUFFICES ASSUME NEW i \in 1 .. Len(s), Asks(s[i]) PROVE IsRequest(Wants(s[i]))
  BY DEF Requests
<1>1. FrameOK(s[i])
  BY ScriptFacts
<1> QED
  BY <1>1 DEF IsRequest

\* A request has one name, which fits, and a value that is kept.
LEMMA RequestFacts ==
  ASSUME NEW r, IsRequest(r)
  PROVE  /\ \E name : r.name = {name} /\ IsText(name) /\ Len(name) + 1 < NameCap
         /\ r.value # {} => Kept(CHOOSE v \in r.value : TRUE)
<1>1. PICK f : FrameOK(f) /\ Asks(f) /\ r = Wants(f)
  BY DEF IsRequest
<1>2. r.name = {f.name} /\ IsText(f.name) /\ Len(f.name) + 1 < NameCap
  BY <1>1 DEF Wants, FrameOK, Asks
<1>3. ASSUME r.value # {} PROVE Kept(CHOOSE v \in r.value : TRUE)
  <2>1. r.value = {f.value} /\ Len(f.value) + 1 < ValueCap
    BY <1>1, <1>3 DEF Wants
  <2>2. (CHOOSE v \in r.value : TRUE) = f.value
    BY <2>1
  <2>3. IsText(f.value) /\ Len(f.value) + 1 < LengthCap
    BY <1>1 DEF FrameOK
  <2>4. Len(f.value) \in Nat
    BY <2>3, TextPlain
  <2>5. Len(f.value) < ValueCap
    BY <2>1, <2>4, Bounds
  <2> QED
    BY <2>2, <2>3, <2>5 DEF Kept
<1> QED
  BY <1>2, <1>3

\* A text of one character is one.
LEMMA TextIsText ==
  ASSUME NEW k \in Nat, k # 0
  PROVE  IsText(Text(k, 1)) /\ Len(Text(k, 1)) = 1
<1> DEFINE x == <<k>>
           t == <<x>>
<1>1. Text(k, 1) = t
  BY DEF Text
<1>2. x[1] \in Nat /\ x = <<x[1]>> /\ x[1] # 0
  OBVIOUS
<1> HIDE DEF x
<1>3. t \in Seq(Range(t)) /\ DOMAIN t = {1} /\ t[1] = x /\ Len(t) = 1
  BY DEF Range
<1> HIDE DEF t
<1>4. IsText(t)
  BY <1>2, <1>3 DEF IsText, IsBytes
<1> QED
  BY <1>1, <1>3, <1>4

\* The first value of a parameter and the error message are kept.
LEMMA ShortTexts == Kept(Initially) /\ Kept(Error)
<1>1. Initially = Text(8, 1) /\ Error = Text(9, 1)
  BY DEF Initially, Error
<1>2. IsText(Text(8, 1)) /\ Len(Text(8, 1)) = 1
  BY TextIsText
<1>3. IsText(Text(9, 1)) /\ Len(Text(9, 1)) = 1
  BY TextIsText
<1>4. IsText(Initially) /\ Len(Initially) = 1 /\ IsText(Error) /\ Len(Error) = 1
  BY <1>1, <1>2, <1>3, Zenon
<1>5. 1 < ValueCap /\ 1 + 1 < LengthCap
  BY Bounds
<1> QED
  BY <1>4, <1>5 DEF Kept

\* One more request.
LEMMA CurrentStep ==
  ASSUME NEW M, NEW p
  PROVE  /\ Current(M, 0, p) = Initially
         /\ \A k \in Nat : Current(M, k + 1, p) =
              IF M[k + 1].name = {p} /\ M[k + 1].value # {}
              THEN CHOOSE v \in M[k + 1].value : TRUE
              ELSE Current(M, k, p)
<1> DEFINE sets(k) == {i \in 1 .. k : M[i].name = {p} /\ M[i].value # {}}
           top(k) == CHOOSE i \in sets(k) : \A j \in sets(k) : j <= i
<1>1. ASSUME NEW k \in Nat
      PROVE  Current(M, k, p) = IF sets(k) = {} THEN Initially
                                ELSE CHOOSE v \in M[top(k)].value : TRUE
  BY Zenon DEF Current
<1>2. Current(M, 0, p) = Initially
  <2>1. sets(0) = {}
    OBVIOUS
  <2> HIDE DEF sets, top
  <2> QED
    BY <1>1, <2>1
<1>3. ASSUME NEW k \in Nat, M[k + 1].name = {p} /\ M[k + 1].value # {}
      PROVE  Current(M, k + 1, p) = CHOOSE v \in M[k + 1].value : TRUE
  <2>1. k + 1 \in sets(k + 1) /\ \A j \in sets(k + 1) : j \in Int /\ j <= k + 1
    BY <1>3
  <2> DEFINE S == sets(k + 1)
  <2> HIDE DEF sets
  <2>2. (CHOOSE i \in S : \A j \in S : j <= i) = k + 1
    BY <2>1
  <2>3. top(k + 1) = k + 1 /\ sets(k + 1) # {}
    BY <2>1, <2>2
  <2> HIDE DEF top
  <2>4. k + 1 \in Nat
    OBVIOUS
  <2> QED
    BY <1>1, <2>3, <2>4
<1>4. ASSUME NEW k \in Nat, ~(M[k + 1].name = {p} /\ M[k + 1].value # {})
      PROVE  Current(M, k + 1, p) = Current(M, k, p)
  <2>1. sets(k + 1) = sets(k)
    BY <1>4
  <2> HIDE DEF sets
  <2>2. top(k + 1) = top(k)
    BY <2>1
  <2> HIDE DEF top
  <2>3. k + 1 \in Nat
    OBVIOUS
  <2> QED
    BY <1>1, <2>1, <2>2, <2>3
<1> HIDE DEF sets, top
<1> QED
  BY <1>2, <1>3, <1>4

\* The reply to the k-th request, and what the client makes of it.
Asked(M, k) == CHOOSE n \in M[k].name : TRUE
ReplyTo(M, k) ==
  IF Asked(M, k) \in Params THEN Reply(GETSET_VALUE, Asked(M, k), Current(M, k, Asked(M, k)))
  ELSE Reply(ERROR_MESSAGE, Asked(M, k), Error)
Expected(M, k) ==
  IF Asked(M, k) \in Params THEN Outcome(TRUE, Current(M, k, Asked(M, k)))
  ELSE Outcome(FALSE, Error)
Replies(s) == [k \in 1 .. Len(Meant(s)) |-> ReplyTo(Meant(s), k)]

\* The client takes a reply for what it is.
Understood(w, out) ==
  /\ Announced(w) /\ Len(w) <= MaxPacket /\ open_frame(w) /\ w[1] = <<GETSET_RPY>>
  /\ read_tlvs(Payload(w)).ok /\ Answer(read_tlvs(Payload(w)).tlvs) = out

\* What a script asks for is a sequence of requests.
LEMMA MeantIs ==
  ASSUME NEW s \in Scripts
  PROVE  /\ Meant(s) \in Seq(Requests(s)) /\ Len(Meant(s)) \in Nat
         /\ \A k \in 1 .. Len(Meant(s)) : IsRequest(Meant(s)[k])
<1>1. Len(s) \in Nat /\ Len(s) \in 0 .. Len(s)
  BY ScriptFacts
<1>2. Meant(s) = MeantAt(s)[Len(s)]
  BY <1>1, MeantDef
<1>3. MeantAt(s)[Len(s)] \in Seq(Requests(s))
  BY <1>1, MeantGrows
<1> DEFINE M == Meant(s)
           R == Requests(s)
<1>4. M \in Seq(R) /\ \A r \in R : IsRequest(r)
  BY <1>2, <1>3, ScriptRequests
<1> HIDE DEF M, R
<1>5. Len(M) \in Nat /\ \A k \in 1 .. Len(M) : M[k] \in R
  BY <1>4
<1>6. \A k \in 1 .. Len(M) : IsRequest(M[k])
  BY <1>4, <1>5
<1> QED
  BY <1>4, <1>5, <1>6 DEF M, R

\* The value that requests leave fits where the daemon keeps it.
LEMMA CurrentKept ==
  ASSUME NEW s \in Scripts, NEW p, NEW k \in 0 .. Len(Meant(s))
  PROVE  Kept(Current(Meant(s), k, p))
<1> DEFINE M == Meant(s)
           I == {n \in Nat : n <= Len(M) => Kept(Current(M, n, p))}
<1>0. Len(M) \in Nat /\ \A n \in 1 .. Len(M) : IsRequest(M[n])
  BY MeantIs
<1>a. k \in 0 .. Len(M)
  OBVIOUS
<1> HIDE DEF M
<1>1. 0 \in I
  BY CurrentStep, ShortTexts
<1>2. ASSUME NEW n \in Nat, n \in I PROVE n + 1 \in I
  <2> SUFFICES ASSUME n + 1 <= Len(M) PROVE Kept(Current(M, n + 1, p))
    OBVIOUS
  <2>1. n + 1 \in 1 .. Len(M) /\ n <= Len(M)
    BY <1>0
  <2>2. Kept(Current(M, n, p))
    BY <1>2, <2>1
  <2>3. M[n + 1].value # {} => Kept(CHOOSE v \in M[n + 1].value : TRUE)
    BY <1>0, <2>1, RequestFacts
  <2>4. Current(M, n + 1, p) =
              IF M[n + 1].name = {p} /\ M[n + 1].value # {}
              THEN CHOOSE v \in M[n + 1].value : TRUE
              ELSE Current(M, n, p)
    BY CurrentStep
  <2> QED
    BY <2>2, <2>3, <2>4
<1>3. Nat \subseteq I
  <2> HIDE DEF I
  <2> QED
    BY <1>1, <1>2, NatSetInduction
<1>4. k \in I
  <2> HIDE DEF I
  <2> QED
    BY <1>0, <1>3, <1>a
<1>5. Kept(Current(M, k, p))
  BY <1>0, <1>4, <1>a
<1> QED
  BY <1>5 DEF M

\* Every reply is understood.
LEMMA ReplyToIs ==
  ASSUME NEW s \in Scripts, NEW k \in 1 .. Len(Meant(s))
  PROVE  Understood(ReplyTo(Meant(s), k), Expected(Meant(s), k))
<1> DEFINE M == Meant(s)
           p == Asked(M, k)
           v == Current(M, k, p)
<1>0. Len(M) \in Nat /\ IsRequest(M[k])
  BY MeantIs
<1>1. \E name : M[k].name = {name} /\ IsText(name) /\ Len(name) + 1 < NameCap
  BY <1>0, RequestFacts
<1>2. PICK name : M[k].name = {name} /\ IsText(name) /\ Len(name) + 1 < NameCap
  BY <1>1
<1>3. p = name
  BY <1>2 DEF Asked
<1>4. k \in 0 .. Len(M)
  BY <1>0
<1>5. Kept(v)
  BY <1>4, CurrentKept
<1> HIDE DEF M, v
<1>6. CASE p \in Params
  <2> DEFINE w == Reply(GETSET_VALUE, name, v)
  <2>1. ReplyTo(M, k) = w /\ Expected(M, k) = Outcome(TRUE, v)
    BY <1>3, <1>6 DEF ReplyTo, Expected, v
  <2>2. /\ Announced(w) /\ Len(w) <= MaxPacket /\ open_frame(w) /\ w[1] = <<GETSET_RPY>>
        /\ read_tlvs(Payload(w)).ok
        /\ Answer(read_tlvs(Payload(w)).tlvs) = Outcome(GETSET_VALUE = GETSET_VALUE, v)
    BY <1>2, <1>5, ReplyIs DEF Kept
  <2>3. (GETSET_VALUE = GETSET_VALUE) = TRUE
    OBVIOUS
  <2> HIDE DEF w
  <2> QED
    BY <2>1, <2>2, <2>3 DEF Understood, M
<1>7. CASE p \notin Params
  <2> DEFINE w == Reply(ERROR_MESSAGE, name, Error)
  <2>1. ReplyTo(M, k) = w /\ Expected(M, k) = Outcome(FALSE, Error)
    BY <1>3, <1>7 DEF ReplyTo, Expected
  <2>2. /\ Announced(w) /\ Len(w) <= MaxPacket /\ open_frame(w) /\ w[1] = <<GETSET_RPY>>
        /\ read_tlvs(Payload(w)).ok
        /\ Answer(read_tlvs(Payload(w)).tlvs) = Outcome(ERROR_MESSAGE = GETSET_VALUE, Error)
    BY <1>2, ShortTexts, ReplyIs DEF Kept
  <2>3. (ERROR_MESSAGE = GETSET_VALUE) = FALSE
    BY Tags
  <2> HIDE DEF w
  <2> QED
    BY <2>1, <2>2, <2>3 DEF Understood, M
<1> QED
  BY <1>6, <1>7

\* The replies to a script, as a stream of frames.
LEMMA RepliesAre ==
  ASSUME NEW s \in Scripts
  PROVE  /\ Replies(s) \in Seq(Seq(Byte)) /\ Len(Replies(s)) = Len(Meant(s))
         /\ Len(Meant(s)) \in Nat
         /\ \A k \in 1 .. Len(Meant(s)) : Replies(s)[k] = ReplyTo(Meant(s), k)
         /\ \A k \in 1 .. Len(Meant(s)) : Understood(Replies(s)[k], Expected(Meant(s), k))
<1> DEFINE M == Meant(s)
           L == Len(M)
           fr == Replies(s)
<1>1. L \in Nat
  BY MeantIs
<1>2. \A k \in 1 .. L : Understood(ReplyTo(M, k), Expected(M, k))
  BY ReplyToIs
<1>3. fr = [k \in 1 .. L |-> ReplyTo(M, k)]
  BY DEF Replies
<1> HIDE DEF M, L, fr
<1>4. \A k \in 1 .. L : ReplyTo(M, k) \in Seq(Byte)
  BY <1>2 DEF Understood, Announced
<1>5. fr \in [1 .. L -> Seq(Byte)]
  BY <1>3, <1>4
<1>6. fr \in Seq(Seq(Byte)) /\ Len(fr) = L /\ \A k \in 1 .. L : fr[k] = ReplyTo(M, k)
  BY <1>1, <1>3, <1>5
<1>7. \A k \in 1 .. L : Understood(fr[k], Expected(M, k))
  BY <1>2, <1>6, Zenon
<1> QED
  BY <1>1, <1>6, <1>7 DEF M, L, fr

-----------------------------------------------------------------------------
(* One step of either side, on its stream *)

\* The next frame only announces one.
NextAbsurd(s, n) == n < Len(s) /\ s[n + 1].kind = "absurd"

\* The reader never takes a byte of the frame after the one it is in.
LEMMA ServerReads ==
  ASSUME NEW s \in Scripts, NEW n, NEW b, NEW e, NEW buf, NEW rest,
         Cut(Frames(s), n, b, e, buf, rest), NextAbsurd(s, n) => Len(buf) < 2,
         NEW k \in 1 .. Len(rest), Len(buf) + k <= Wanted(buf), Len(buf) < Wanted(buf)
  PROVE  LET nb == buf \o SubSeq(rest, 1, k)
         IN  /\ Cut(Frames(s), n, b + k, e, nb, SubSeq(rest, k + 1, Len(rest)))
             /\ NextAbsurd(s, n) /\ ~(Len(nb) < 2) =>
                  Len(buf) + k = HeaderLen /\ nb[2][1] + HeaderLen + CrcLen > MaxPacket
<1> DEFINE fr == Frames(s)
           nb == buf \o SubSeq(rest, 1, k)
           nr == SubSeq(rest, k + 1, Len(rest))
           w == fr[n + 1]
           f == s[n + 1]
<1>0. fr \in Seq(Seq(Byte)) /\ Len(fr) = Len(s) /\ Len(s) \in Nat
  BY ScriptFacts
<1>1. n \in 0 .. Len(fr)
  BY DEF Cut
<1>2. /\ buf \in Seq(Byte) /\ rest \in Seq(Byte) /\ Len(buf) \in Nat /\ Len(rest) \in Nat
      /\ n = Len(fr) => buf = <<>> /\ rest = <<>>
      /\ n < Len(fr) => /\ Len(buf) <= Len(fr[n + 1])
                        /\ \A j \in 1 .. Len(buf) : buf[j] = fr[n + 1][j]
  BY <1>0, CutFacts
<1>3. n < Len(fr)
  <2>1. rest # <<>>
    BY <1>2
  <2> QED
    BY <1>0, <1>1, <1>2, <2>1
<1>4. FrameOK(f) /\ w = Bytes(f)
  <2>1. n + 1 \in 1 .. Len(s)
    BY <1>0, <1>1, <1>3
  <2> QED
    BY <2>1, ScriptFacts
<1>5. Len(buf) + k <= Len(w) /\ Len(w) \in Nat
  <2>1. CASE f.kind = "absurd"
    <3>1. Len(buf) < 2 /\ Len(w) = 2
      BY <1>0, <1>3, <1>4, <2>1, AbsurdFrame DEF NextAbsurd
    <3>2. Wanted(buf) = 2
      BY <3>1 DEF Wanted, HeaderLen
    <3> QED
      BY <3>1, <3>2
  <2>2. CASE f.kind # "absurd"
    <3>1. Announced(w)
      BY <1>4, <2>2, FrameServed
    <3>2. Wanted(buf) = IF Len(buf) < 2 THEN 2 ELSE Len(w)
      BY <1>2, <1>3, <3>1, WantedIs
    <3>3. Len(w) \in Nat /\ Len(w) >= 3
      BY <3>1 DEF Announced
    <3> QED
      BY <1>2, <3>2, <3>3
  <2> QED
    BY <2>1, <2>2
<1>6. Cut(fr, n, b + k, e, nb, nr)
  <2>1. Cut(fr, n, b, e, buf, rest) /\ Len(buf) + k <= Len(fr[n + 1])
    BY <1>5
  <2> HIDE DEF fr
  <2> QED
    BY <1>0, <1>3, <2>1, CutRead
<1>7. ASSUME NextAbsurd(s, n), ~(Len(nb) < 2)
      PROVE  Len(buf) + k = HeaderLen /\ nb[2][1] + HeaderLen + CrcLen > MaxPacket
  <2>1. Len(w) = 2 /\ w[2][1] + HeaderLen + CrcLen > MaxPacket
    BY <1>4, <1>7, AbsurdFrame DEF NextAbsurd
  <2>2. SubSeq(rest, 1, k) \in Seq(Byte) /\ Len(SubSeq(rest, 1, k)) = k
    BY <1>2
  <2>3. Len(nb) = Len(buf) + k
    BY <1>2, <2>2
  <2>4. Len(nb) = 2
    BY <1>2, <1>5, <1>7, <2>1, <2>3
  <2>5. \A j \in 1 .. Len(nb) : nb[j] = fr[n + 1][j]
    <3> HIDE DEF fr, nb
    <3> QED
      BY <1>0, <1>3, <1>6, CutFacts
  <2>6. nb[2] = w[2]
    BY <2>4, <2>5
  <2> QED
    BY <2>1, <2>3, <2>4, <2>6 DEF HeaderLen
<1> HIDE DEF nb
<1> QED
  BY <1>6, <1>7 DEF nb

\* A whole frame is the next one of the script.
LEMMA ServerFrames ==
  ASSUME NEW s \in Scripts, NEW n, NEW b, NEW e, NEW buf, NEW rest,
         Cut(Frames(s), n, b, e, buf, rest), NextAbsurd(s, n) => Len(buf) < 2,
         Len(buf) >= HeaderLen, Len(buf) = Wanted(buf)
  PROVE  /\ n + 1 \in 1 .. Len(s) /\ FrameOK(s[n + 1]) /\ s[n + 1].kind # "absurd"
         /\ buf = Bytes(s[n + 1]) /\ Cut(Frames(s), n + 1, b, e, <<>>, rest)
<1> DEFINE fr == Frames(s)
           w == fr[n + 1]
           f == s[n + 1]
<1>0. fr \in Seq(Seq(Byte)) /\ Len(fr) = Len(s) /\ Len(s) \in Nat
  BY ScriptFacts
<1>1. n \in 0 .. Len(fr)
  BY DEF Cut
<1>2. /\ buf \in Seq(Byte) /\ Len(buf) \in Nat
      /\ n = Len(fr) => buf = <<>>
      /\ n < Len(fr) => /\ Len(buf) <= Len(fr[n + 1])
                        /\ \A j \in 1 .. Len(buf) : buf[j] = fr[n + 1][j]
  BY <1>0, CutFacts
<1>3. n < Len(fr)
  <2>1. buf # <<>>
    BY <1>2 DEF HeaderLen
  <2> QED
    BY <1>0, <1>1, <1>2, <2>1
<1>4. n + 1 \in 1 .. Len(s)
  BY <1>0, <1>1, <1>3
<1>5. FrameOK(f) /\ w = Bytes(f)
  BY <1>4, ScriptFacts
<1>6. f.kind # "absurd"
  BY <1>0, <1>2, <1>3 DEF NextAbsurd, HeaderLen
<1>7. Announced(w)
  BY <1>5, <1>6, FrameServed
<1>8. Wanted(buf) = IF Len(buf) < 2 THEN 2 ELSE Len(w)
  BY <1>2, <1>3, <1>7, WantedIs
<1>9. Len(buf) = Len(w)
  BY <1>2, <1>8 DEF HeaderLen
<1>10. buf = w /\ Cut(fr, n + 1, b, e, <<>>, rest)
  <2>1. Cut(fr, n, b, e, buf, rest) /\ Len(buf) = Len(fr[n + 1])
    BY <1>9
  <2> HIDE DEF fr
  <2> QED
    BY <1>0, <1>3, <2>1, CutNext
<1> QED
  BY <1>4, <1>5, <1>6, <1>10

\* Between frames, with nothing under way, the script is at its end.
LEMMA AllTaken ==
  ASSUME NEW s \in Scripts, NEW n, NEW b,
         Cut(Frames(s), n, b, Len(FlattenSeq(Frames(s))), <<>>, <<>>)
  PROVE  n = Len(s)
<1> DEFINE fr == Frames(s)
           W == FlattenSeq(fr)
<1>0. fr \in Seq(Seq(Byte)) /\ Len(fr) = Len(s) /\ Len(s) \in Nat
  BY ScriptFacts
<1>1. n \in 0 .. Len(fr) /\ b \in Nat
  BY DEF Cut
<1>2. SUFFICES ASSUME n < Len(fr) PROVE FALSE
  BY <1>0, <1>1
<1>3. /\ Off(fr, n + 1) = Off(fr, n) + Len(fr[n + 1]) /\ Off(fr, n) \in Nat
      /\ Off(fr, n + 1) <= Len(W)
  BY <1>0, <1>1, <1>2, SlicePiece
<1>4. Len(<<>>) = b - Off(fr, n) /\ Len(<<>>) = Len(W) - b
  BY <1>0, CutFacts
<1>5. Len(W) \in Nat
  <2>1. W \in Seq(Byte)
    BY <1>0, StreamIsPieces
  <2> HIDE DEF W
  <2> QED
    BY <2>1
<1>6. Len(fr[n + 1]) \in Nat /\ Len(fr[n + 1]) >= 2
  <2>1. n + 1 \in 1 .. Len(s)
    BY <1>0, <1>1, <1>2
  <2>2. FrameOK(s[n + 1]) /\ fr[n + 1] = Bytes(s[n + 1])
    BY <2>1, ScriptFacts
  <2>3. CASE s[n + 1].kind = "absurd"
    BY <2>2, <2>3, AbsurdFrame
  <2>4. CASE s[n + 1].kind # "absurd"
    <3>1. Announced(fr[n + 1])
      BY <2>2, <2>4, FrameServed
    <3> QED
      BY <3>1 DEF Announced
  <2> QED
    BY <2>3, <2>4
<1> HIDE DEF W, fr
<1>7. Len(<<>>) = 0
  OBVIOUS
<1> QED
  BY <1>1, <1>3, <1>4, <1>5, <1>6, <1>7

\* A frame that is not past a break adds what it asks for.
LEMMA MeantNext ==
  ASSUME NEW s \in Scripts, NEW n \in 1 .. Len(s), Sound(s, n)
  PROVE  MeantAt(s)[n] = IF Asks(s[n]) THEN Append(MeantAt(s)[n - 1], Wants(s[n]))
                         ELSE MeantAt(s)[n - 1]
<1>1. Len(s) \in Nat
  BY ScriptFacts
<1>2. MeantAt(s)[n] = Grown(s, n, MeantAt(s)[n - 1])
  BY <1>1, MeantDef
<1> QED
  BY <1>2 DEF Grown, Sound

\* The client never takes a byte of the reply after the one it is in.
LEMMA ClientReads ==
  ASSUME NEW s \in Scripts, NEW g, NEW c, NEW e, NEW buf, NEW rest,
         Cut(Replies(s), g, c, e, buf, rest),
         NEW k \in 1 .. Len(rest), Len(buf) + k <= Wanted(buf)
  PROVE  Cut(Replies(s), g, c + k, e, buf \o SubSeq(rest, 1, k), SubSeq(rest, k + 1, Len(rest)))
<1> DEFINE fr == Replies(s)
           w == fr[g + 1]
<1>0. fr \in Seq(Seq(Byte)) /\ Len(fr) = Len(Meant(s)) /\ Len(fr) \in Nat
  BY RepliesAre
<1>1. g \in 0 .. Len(fr)
  BY DEF Cut
<1>2. /\ Len(buf) \in Nat /\ rest \in Seq(Byte)
      /\ g = Len(fr) => rest = <<>>
      /\ g < Len(fr) => /\ Len(buf) <= Len(fr[g + 1])
                        /\ \A j \in 1 .. Len(buf) : buf[j] = fr[g + 1][j]
  BY <1>0, CutFacts
<1>3. g < Len(fr)
  <2>1. rest # <<>>
    BY <1>2
  <2> QED
    BY <1>0, <1>1, <1>2, <2>1
<1>4. Announced(w)
  <2>1. g + 1 \in 1 .. Len(Meant(s))
    BY <1>0, <1>1, <1>3
  <2> QED
    BY <2>1, RepliesAre DEF Understood
<1>5. Wanted(buf) = IF Len(buf) < 2 THEN 2 ELSE Len(w)
  BY <1>2, <1>3, <1>4, WantedIs
<1>6. Len(buf) + k <= Len(w)
  BY <1>2, <1>4, <1>5 DEF Announced
<1>a. Cut(fr, g, c, e, buf, rest) /\ Len(buf) + k <= Len(fr[g + 1])
  BY <1>6
<1> HIDE DEF fr
<1>7. Cut(fr, g, c + k, e, buf \o SubSeq(rest, 1, k), SubSeq(rest, k + 1, Len(rest)))
  BY <1>0, <1>3, <1>a, CutRead
<1> QED
  BY <1>7 DEF fr

\* A whole frame is the reply to the next request, and that was served.
LEMMA ClientFrames ==
  ASSUME NEW s \in Scripts, NEW g, NEW c, NEW h \in 0 .. Len(Meant(s)), g <= h,
         NEW buf, NEW rest,
         Cut(Replies(s), g, c, Off(Replies(s), h), buf, rest),
         Len(buf) >= HeaderLen, Len(buf) = Wanted(buf)
  PROVE  /\ g + 1 <= h /\ Understood(buf, Expected(Meant(s), g + 1))
         /\ Cut(Replies(s), g + 1, c, Off(Replies(s), h), <<>>, rest)
<1> DEFINE fr == Replies(s)
           w == fr[g + 1]
           e == Off(fr, h)
<1>0. fr \in Seq(Seq(Byte)) /\ Len(fr) = Len(Meant(s)) /\ Len(fr) \in Nat
  BY RepliesAre
<1>1. g \in 0 .. Len(fr) /\ c \in Nat /\ e \in Nat /\ c <= e
  BY DEF Cut
<1>2. /\ Len(buf) \in Nat /\ buf \in Seq(Byte) /\ Len(buf) = c - Off(fr, g)
      /\ g = Len(fr) => buf = <<>>
      /\ g < Len(fr) => /\ Len(buf) <= Len(fr[g + 1])
                        /\ \A j \in 1 .. Len(buf) : buf[j] = fr[g + 1][j]
  <2>1. Cut(fr, g, c, e, buf, rest)
    OBVIOUS
  <2> HIDE DEF fr, e
  <2>2. fr \in Seq(Seq(Byte))
    BY <1>0
  <2>3. Len(buf) \in Nat /\ buf \in Seq(Byte) /\ Len(buf) = c - Off(fr, g)
    BY <2>1, <2>2, CutFacts
  <2>4. g = Len(fr) => buf = <<>>
    BY <2>1, <2>2, CutFacts
  <2>5. g < Len(fr) => /\ Len(buf) <= Len(fr[g + 1])
                       /\ \A j \in 1 .. Len(buf) : buf[j] = fr[g + 1][j]
    BY <2>1, <2>2, CutFacts
  <2> QED
    BY <2>3, <2>4, <2>5
<1>3. g < Len(fr)
  <2>1. buf # <<>>
    BY <1>2 DEF HeaderLen
  <2> QED
    BY <1>0, <1>1, <1>2, <2>1
<1>4. Understood(w, Expected(Meant(s), g + 1))
  <2>1. g + 1 \in 1 .. Len(Meant(s))
    BY <1>0, <1>1, <1>3
  <2> QED
    BY <2>1, RepliesAre
<1>5. Wanted(buf) = IF Len(buf) < 2 THEN 2 ELSE Len(w)
  BY <1>2, <1>3, <1>4, WantedIs DEF Understood
<1>6. Len(buf) = Len(w)
  BY <1>2, <1>5 DEF HeaderLen
<1>7. buf = w /\ Cut(fr, g + 1, c, e, <<>>, rest)
  <2>1. Cut(fr, g, c, e, buf, rest) /\ Len(buf) = Len(fr[g + 1])
    BY <1>6
  <2> HIDE DEF fr, e
  <2> QED
    BY <1>0, <1>3, <2>1, CutNext
<1>8. g # h
  <2> SUFFICES ASSUME g = h PROVE FALSE
    OBVIOUS
  <2>1. e = Off(fr, g)
    OBVIOUS
  <2>2. Len(buf) >= 2 /\ Len(buf) = c - e
    BY <1>2, <2>1 DEF HeaderLen
  <2> HIDE DEF e
  <2> QED
    BY <1>1, <2>2
<1>9. g + 1 <= h
  BY <1>0, <1>1, <1>8
<1> QED
  BY <1>4, <1>7, <1>9

-----------------------------------------------------------------------------
(* The inductive invariant of a connection *)

Unconnected ==
  /\ cl = [at |-> "idle"] /\ sv = [at |-> "none"] /\ script = <<>>
  /\ s2c = <<>> /\ got = <<>> /\ handled = <<>>
  /\ param = [p \in Params |-> Initially]

\* The thread has taken n frames, none of which ends the connection, and what
\* they ask for was served; it is within the next frame, about to serve the one
\* it took last, or through.
AtHeader(n, b, e) ==
  /\ sv = [at |-> "header", buf |-> sv.buf]
  /\ Cut(Frames(script), n, b, e, sv.buf, c2s)
  /\ handled = MeantAt(script)[n]
  /\ NextAbsurd(script, n) => Len(sv.buf) < 2
AtServe(n, b, e) ==
  /\ sv = [at |-> "serve", req |-> Wants(script[n])] /\ n # 0 /\ Asks(script[n])
  /\ Cut(Frames(script), n, b, e, <<>>, c2s)
  /\ handled = MeantAt(script)[n - 1]
AtClosed(n) == sv.at = "closed" /\ handled = MeantAt(script)[n]

ServerAt(n, b, e) ==
  /\ Sound(script, n)
  /\ cl.at # "done" => e = Len(FlattenSeq(Frames(script)))
  /\ AtHeader(n, b, e) \/ AtServe(n, b, e) \/ AtClosed(n)
ServerInStep == \E n \in 0 .. Len(script), b, e \in Nat : ServerAt(n, b, e)

\* The client has taken the replies to as many requests as it has answers; what
\* is under way ends with the reply to the last request served.
ClientAt(c) ==
  /\ cl = [at |-> "header", buf |-> cl.buf]
  /\ Cut(Replies(script), Len(got), c, Off(Replies(script), Len(handled)), cl.buf, s2c)
ClientInStep == cl = [at |-> "done"] \/ \E c \in Nat : ClientAt(c)

Outcomes(M) == {Expected(M, k) : k \in Nat}
GotInStep ==
  /\ got \in Seq(Outcomes(Meant(script))) /\ Len(got) <= Len(handled)
  /\ \A k \in 1 .. Len(got) : got[k] = Expected(Meant(script), k)

ParamInStep == param = [p \in Params |-> Current(Meant(script), Len(handled), p)]

Connected == script \in Scripts /\ ServerInStep /\ ClientInStep /\ GotInStep /\ ParamInStep

WireInv == Unconnected \/ Connected

-----------------------------------------------------------------------------

\* What was served is the beginning of what the script asks for.
LEMMA HandledIs ==
  ASSUME Connected
  PROVE  /\ handled \in Seq(Requests(script)) /\ Len(handled) \in Nat
         /\ Begins(handled, Meant(script))
         /\ Len(handled) \in 0 .. Len(Meant(script))
<1>0. script \in Scripts
  BY DEF Connected
<1>1. PICK n \in 0 .. Len(script), b \in Nat, e \in Nat : ServerAt(n, b, e)
  BY DEF Connected, ServerInStep
<1>2. Len(script) \in Nat
  BY <1>0, ScriptFacts
<1>3. \E m \in 0 .. Len(script) : handled = MeantAt(script)[m]
  <2>1. CASE AtHeader(n, b, e) \/ AtClosed(n)
    BY <2>1 DEF AtHeader, AtClosed
  <2>2. CASE AtServe(n, b, e)
    <3>1. n - 1 \in 0 .. Len(script) /\ handled = MeantAt(script)[n - 1]
      BY <1>2, <2>2 DEF AtServe
    <3> QED
      BY <3>1
  <2> QED
    BY <1>1, <2>1, <2>2 DEF ServerAt
<1>4. PICK m \in 0 .. Len(script) : handled = MeantAt(script)[m]
  BY <1>3
<1>5. handled \in Seq(Requests(script))
  BY <1>2, <1>4, MeantGrows
<1>6. Begins(handled, Meant(script))
  BY <1>2, <1>4, MeantGrows
<1> DEFINE h == Len(handled)
           k == Len(Meant(script))
<1>7. k \in Nat
  BY <1>0, MeantIs
<1>8. h \in Nat
  BY <1>5
<1>9. h <= k
  BY <1>6 DEF Begins
<1> HIDE DEF h, k
<1>10. h \in 0 .. k
  BY <1>7, <1>8, <1>9
<1> QED
  BY <1>5, <1>6, <1>8, <1>10 DEF h, k

\* A new connection has read, served and answered nothing.
LEMMA ConnectStep ==
  ASSUME Unconnected, NEW s \in Scripts, Connect(s)
  PROVE  Connected'
<1> DEFINE fr == Frames(s)
           W == FlattenSeq(fr)
           M == Meant(s)
<1>0. /\ script' = s /\ c2s' = W
      /\ sv' = [at |-> "header", buf |-> <<>>] /\ cl' = [at |-> "header", buf |-> <<>>]
      /\ s2c' = <<>> /\ got' = <<>> /\ handled' = <<>>
      /\ param' = [p \in Params |-> Initially]
  BY Zenon DEF Connect, Unconnected, Frames
<1>1. fr \in Seq(Seq(Byte)) /\ Len(s) \in Nat
  BY ScriptFacts
<1>2. Cut(fr, 0, 0, Len(W), <<>>, W)
  BY <1>1, CutStart
<1>3. MeantAt(s)[0] = <<>>
  BY <1>1, MeantDef
<1>4. Replies(s) \in Seq(Seq(Byte))
  BY RepliesAre
<1>5. Cut(Replies(s), 0, 0, Off(Replies(s), 0), <<>>, <<>>)
  BY <1>4, CutStart
<1>6. Len(W) \in Nat
  BY <1>2 DEF Cut
<1>7. Len(<<>>) = 0 /\ 0 < 2
  OBVIOUS
<1>a. sv'.buf = <<>> /\ sv'.at = "header" /\ cl'.buf = <<>> /\ cl'.at = "header"
  BY <1>0
<1>8. AtHeader(0, 0, Len(W))'
  <2>1. sv' = [at |-> "header", buf |-> sv'.buf]
    BY <1>0, <1>a
  <2> HIDE DEF W, fr
  <2>2. Cut(Frames(script'), 0, 0, Len(W), sv'.buf, c2s')
    BY <1>0, <1>2, <1>a DEF fr
  <2>3. handled' = MeantAt(script')[0]
    BY <1>0, <1>3
  <2>4. Len(sv'.buf) < 2
    BY <1>7, <1>a
  <2> QED
    BY <2>1, <2>2, <2>3, <2>4 DEF AtHeader
<1>9. Sound(s, 0)
  BY DEF Sound
<1>10. ServerAt(0, 0, Len(W))'
  <2>1. Len(W) = Len(FlattenSeq(Frames(script')))
    BY <1>0
  <2> HIDE DEF W, fr
  <2> QED
    BY <1>0, <1>8, <1>9, <2>1 DEF ServerAt
<1>11. ServerInStep'
  <2>1. 0 \in 0 .. Len(script') /\ 0 \in Nat
    BY <1>0, <1>1
  <2> HIDE DEF W, fr
  <2> QED
    BY <1>6, <1>10, <2>1, Zenon DEF ServerInStep
<1>12. ClientInStep'
  <2>1. cl' = [at |-> "header", buf |-> cl'.buf]
    BY <1>0, <1>a
  <2>2. Cut(Replies(script'), Len(got'), 0, Off(Replies(script'), Len(handled')), cl'.buf, s2c')
    BY <1>0, <1>5, <1>7, <1>a
  <2>3. ClientAt(0)'
    BY <2>1, <2>2 DEF ClientAt
  <2>4. 0 \in Nat
    OBVIOUS
  <2> QED
    BY <2>3, <2>4, Zenon DEF ClientInStep
<1>13. GotInStep'
  <2>1. got' = <<>> /\ handled' = <<>>
    BY <1>0
  <2> QED
    BY <2>1 DEF GotInStep
<1>14. ParamInStep'
  <2>1. \A p \in Params : Current(M, 0, p) = Initially
    BY CurrentStep
  <2>2. param' = [p \in Params |-> Current(M, 0, p)]
    BY <1>0, <2>1
  <2>3. Len(handled') = 0 /\ Meant(script') = M
    BY <1>0, <1>7
  <2> HIDE DEF M
  <2> QED
    BY <2>2, <2>3 DEF ParamInStep
<1> QED
  BY <1>0, <1>11, <1>12, <1>13, <1>14 DEF Connected

\* The steps of the thread that serve nothing leave the client's side alone.
LEMMA ClientSideKept ==
  ASSUME Connected, UNCHANGED <<script, s2c, cl, got, handled, param>>
  PROVE  script' \in Scripts /\ ClientInStep' /\ GotInStep' /\ ParamInStep'
BY Zenon DEF Connected, ClientInStep, ClientAt, GotInStep, ParamInStep, Outcomes

\* Read: the thread stays within the frame, or closes.
LEMMA ReadStep ==
  ASSUME Connected, NEW k \in 1 .. Len(c2s), Read(k)
  PROVE  Connected'
<1> DEFINE nb == sv.buf \o SubSeq(c2s, 1, k)
           nr == SubSeq(c2s, k + 1, Len(c2s))
           shut == Len(sv.buf) + k = HeaderLen /\ nb[2][1] + HeaderLen + CrcLen > MaxPacket
<1>0. script \in Scripts
  BY DEF Connected
<1>1. PICK n \in 0 .. Len(script), b \in Nat, e \in Nat : ServerAt(n, b, e)
  BY DEF Connected, ServerInStep
<1>2. /\ sv.at = "header" /\ Len(sv.buf) + k <= Wanted(sv.buf) /\ Len(sv.buf) < Wanted(sv.buf)
      /\ c2s' = nr /\ UNCHANGED <<script, s2c, cl, got, handled, param>>
  BY Zenon DEF Read
<1>3. AtHeader(n, b, e)
  BY <1>1, <1>2 DEF ServerAt, AtServe, AtClosed
<1>4. sv' = [at |-> IF shut THEN "closed" ELSE "header", buf |-> nb]
  BY <1>3 DEF Read, AtHeader
<1>5. Cut(Frames(script), n, b, e, sv.buf, c2s) /\ (NextAbsurd(script, n) => Len(sv.buf) < 2)
  BY <1>3 DEF AtHeader
<1>6. /\ Cut(Frames(script), n, b + k, e, nb, nr)
      /\ NextAbsurd(script, n) /\ ~(Len(nb) < 2) => shut
  BY <1>0, <1>2, <1>5, ServerReads
<1> HIDE DEF nb, nr, shut
<1>7. ServerAt(n, b + k, e)'
  <2>1. Sound(script', n) /\ (cl'.at # "done" => e = Len(FlattenSeq(Frames(script'))))
    BY <1>1, <1>2 DEF ServerAt
  <2>2. handled' = MeantAt(script')[n]
    BY <1>2, <1>3 DEF AtHeader
  <2>3. CASE shut
    <3>1. sv'.at = "closed"
      BY <1>4, <2>3
    <3> QED
      BY <2>1, <2>2, <3>1 DEF ServerAt, AtClosed
  <2>4. CASE ~shut
    <3>1. sv' = [at |-> "header", buf |-> nb] /\ sv'.buf = nb
      BY <1>4, <2>4
    <3>2. Cut(Frames(script'), n, b + k, e, sv'.buf, c2s')
      BY <1>2, <1>6, <3>1
    <3>3. NextAbsurd(script', n) => Len(sv'.buf) < 2
      BY <1>2, <1>6, <2>4, <3>1
    <3>4. AtHeader(n, b + k, e)'
      BY <2>2, <3>1, <3>2, <3>3 DEF AtHeader
    <3> QED
      BY <2>1, <3>4 DEF ServerAt
  <2> QED
    BY <2>3, <2>4
<1>8. b + k \in Nat
  BY <1>6 DEF Cut
<1>9. ServerInStep'
  <2>1. n \in 0 .. Len(script') /\ e \in Nat
    BY <1>2
  <2> QED
    BY <1>7, <1>8, <2>1, Zenon DEF ServerInStep
<1> QED
  BY <1>2, <1>9, ClientSideKept DEF Connected

\* ReadEof: the thread closes, with what it served.
LEMMA EofStep ==
  ASSUME Connected, ReadEof
  PROVE  Connected'
<1>1. PICK n \in 0 .. Len(script), b \in Nat, e \in Nat : ServerAt(n, b, e)
  BY DEF Connected, ServerInStep
<1>2. sv.at = "header" /\ UNCHANGED <<script, c2s, s2c, cl, got, handled, param>>
  BY DEF ReadEof
<1>3. AtHeader(n, b, e)
  BY <1>1, <1>2 DEF ServerAt, AtServe, AtClosed
<1>4. sv'.at = "closed"
  BY <1>3 DEF ReadEof, AtHeader
<1>5. ServerAt(n, b, e)'
  BY <1>1, <1>2, <1>3, <1>4 DEF ServerAt, AtClosed, AtHeader
<1>6. ServerInStep'
  <2>1. n \in 0 .. Len(script')
    BY <1>2
  <2> QED
    BY <1>5, <2>1, Zenon DEF ServerInStep
<1> QED
  BY <1>2, <1>6, ClientSideKept DEF Connected

\* Frame: the frame is passed over, ends the connection or is about to be served.
LEMMA FrameStep ==
  ASSUME Connected, Frame
  PROVE  Connected'
<1>0. script \in Scripts
  BY DEF Connected
<1>1. PICK n \in 0 .. Len(script), b \in Nat, e \in Nat : ServerAt(n, b, e)
  BY DEF Connected, ServerInStep
<1>2. /\ sv.at = "header" /\ Len(sv.buf) >= HeaderLen /\ Len(sv.buf) = Wanted(sv.buf)
      /\ UNCHANGED <<script, c2s, s2c, cl, got, handled, param>>
  BY Zenon DEF Frame
<1>3. AtHeader(n, b, e)
  BY <1>1, <1>2 DEF ServerAt, AtServe, AtClosed
<1> DEFINE f == script[n + 1]
           w == sv.buf
           ts == read_tlvs(Payload(w)).tlvs
<1>4. sv' = IF ~open_frame(w) THEN [sv EXCEPT !.at = "closed"]
            ELSE IF Passed(w) THEN [at |-> "header", buf |-> <<>>]
            ELSE [at |-> "serve", req |-> Request(ts)]
  BY Zenon DEF Frame, Passed
<1>5. Cut(Frames(script), n, b, e, sv.buf, c2s) /\ (NextAbsurd(script, n) => Len(sv.buf) < 2)
  BY <1>3 DEF AtHeader
<1>6. /\ n + 1 \in 1 .. Len(script) /\ FrameOK(f) /\ f.kind # "absurd"
      /\ w = Bytes(f) /\ Cut(Frames(script), n + 1, b, e, <<>>, c2s)
  BY <1>0, <1>2, <1>5, ServerFrames
<1>7. /\ Breaks(f) => ~open_frame(w)
      /\ ~Breaks(f) => (Passed(w) <=> ~Asks(f))
      /\ Asks(f) => Request(ts) = Wants(f)
  BY <1>6, FrameServed
<1>s. Sound(script, n) /\ (cl.at # "done" => e = Len(FlattenSeq(Frames(script))))
  BY <1>1 DEF ServerAt
<1>h. handled = MeantAt(script)[n]
  BY <1>3 DEF AtHeader
<1>r. sv = [at |-> "header", buf |-> sv.buf]
  BY <1>3 DEF AtHeader
<1> HIDE DEF w, ts
<1>8. CASE ~open_frame(w)
  <2>1. sv'.at = "closed"
    BY <1>4, <1>8, <1>r
  <2>2. ServerAt(n, b, e)'
    BY <1>2, <1>h, <1>s, <2>1 DEF ServerAt, AtClosed
  <2>3. n \in 0 .. Len(script')
    BY <1>2
  <2>4. ServerInStep'
    BY <2>2, <2>3, Zenon DEF ServerInStep
  <2> QED
    BY <1>2, <2>4, ClientSideKept DEF Connected
<1>9. CASE open_frame(w)
  <2>1. ~Breaks(f)
    BY <1>7, <1>9
  <2>2. Sound(script, n + 1)
    <3> SUFFICES ASSUME NEW i \in 1 .. n + 1 PROVE ~Breaks(script[i])
      BY DEF Sound
    <3>1. CASE i = n + 1
      BY <2>1, <3>1
    <3>2. CASE i # n + 1
      <4>1. i \in 1 .. n
        BY <3>2
      <4> QED
        BY <1>s, <4>1 DEF Sound
    <3> QED
      BY <3>1, <3>2
  <2>3. (n + 1) - 1 = n /\ n + 1 # 0
    OBVIOUS
  <2>4. MeantAt(script)[n + 1] = IF Asks(f) THEN Append(MeantAt(script)[n], Wants(f))
                                 ELSE MeantAt(script)[n]
    BY <1>0, <1>6, <2>2, <2>3, MeantNext
  <2>5. AtHeader(n + 1, b, e)' \/ AtServe(n + 1, b, e)'
    <3>1. CASE Passed(w)
      <4>1. sv' = [at |-> "header", buf |-> <<>>] /\ sv'.buf = <<>>
        BY <1>4, <1>9, <3>1
      <4>2. handled = MeantAt(script)[n + 1]
        BY <1>7, <1>h, <2>1, <2>4, <3>1
      <4>3. Len(<<>>) < 2
        OBVIOUS
      <4> QED
        BY <1>2, <1>6, <4>1, <4>2, <4>3 DEF AtHeader
    <3>2. CASE ~Passed(w)
      <4>1. sv' = [at |-> "serve", req |-> Wants(f)] /\ Asks(f)
        BY <1>4, <1>7, <1>9, <2>1, <3>2
      <4> QED
        BY <1>2, <1>6, <1>h, <2>3, <4>1 DEF AtServe
    <3> QED
      BY <3>1, <3>2
  <2>6. ServerAt(n + 1, b, e)'
    BY <1>2, <1>s, <2>2, <2>5 DEF ServerAt
  <2>7. n + 1 \in 0 .. Len(script')
    BY <1>2, <1>6
  <2>8. ServerInStep'
    BY <2>6, <2>7, Zenon DEF ServerInStep
  <2> QED
    BY <1>2, <2>8, ClientSideKept DEF Connected
<1> QED
  BY <1>8, <1>9

\* Serve: what was served grows by the next request, and its reply follows the others.
LEMMA ServeStep ==
  ASSUME Connected, Serve
  PROVE  Connected'
<1> DEFINE M == Meant(script)
           h == Len(handled)
           fr == Replies(script)
<1>0. script \in Scripts /\ Len(script) \in Nat
  BY ScriptFacts DEF Connected
<1>1. PICK n \in 0 .. Len(script), b \in Nat, e \in Nat : ServerAt(n, b, e)
  BY DEF Connected, ServerInStep
<1>2. AtServe(n, b, e)
  BY <1>1 DEF ServerAt, AtHeader, AtClosed, Serve
<1> DEFINE f == script[n]
           r == Wants(f)
           p == f.name
           X(v) == IF p \in Params THEN Reply(GETSET_VALUE, p, v[p])
                   ELSE Reply(ERROR_MESSAGE, p, Error)
<1>3. /\ sv.req = r /\ n \in 1 .. Len(script) /\ Asks(f)
      /\ Cut(Frames(script), n, b, e, <<>>, c2s)
      /\ handled = MeantAt(script)[n - 1]
  BY <1>0, <1>2 DEF AtServe
<1>4. sv.req.name = {p}
  BY <1>3 DEF Wants
<1>5. /\ param' = [q \in Params |->
                     IF q = p /\ r.value # {} THEN CHOOSE v \in r.value : TRUE ELSE param[q]]
      /\ s2c' = IF cl.at = "done" THEN <<>> ELSE s2c \o X(param')
      /\ handled' = Append(handled, r)
  <2> HIDE DEF r, p
  <2>1. PICK name \in sv.req.name :
          /\ param' = [q \in Params |->
                     IF q = name /\ sv.req.value # {} THEN CHOOSE v \in sv.req.value : TRUE
                     ELSE param[q]]
          /\ s2c' = IF cl.at = "done" THEN <<>>
                    ELSE s2c \o (IF name \in Params THEN Reply(GETSET_VALUE, name, param'[name])
                                 ELSE Reply(ERROR_MESSAGE, name, Error))
          /\ handled' = Append(handled, sv.req)
    BY Zenon DEF Serve
  <2>2. name = p /\ sv.req = r
    BY <1>3, <1>4
  <2>3. handled' = Append(handled, r)
    BY <2>1, <2>2
  <2>4. s2c' = IF cl.at = "done" THEN <<>> ELSE s2c \o X(param')
    BY <2>1, <2>2
  <2>5. param' = [q \in Params |->
                    IF q = p /\ r.value # {} THEN CHOOSE v \in r.value : TRUE ELSE param[q]]
    BY <2>1, <2>2
  <2> QED
    BY <2>3, <2>4, <2>5
<1>6. /\ sv' = [at |-> "header", buf |-> <<>>] /\ sv'.buf = <<>>
      /\ UNCHANGED <<script, c2s, cl, got>>
  BY DEF Serve
<1>s. Sound(script, n) /\ (cl.at # "done" => e = Len(FlattenSeq(Frames(script))))
  BY <1>1 DEF ServerAt
<1>7. handled' = MeantAt(script)[n]
  BY <1>0, <1>3, <1>5, <1>s, MeantNext
<1>8. Begins(handled', M)
  BY <1>0, <1>7, MeantGrows
<1>9. handled \in Seq(Requests(script)) /\ h \in Nat
  BY HandledIs
<1>10. r \in Requests(script)
  BY <1>3 DEF Requests
<1>11. Len(M) \in Nat
  BY <1>0, MeantIs
<1> HIDE DEF r, M
<1>12. Len(handled') = h + 1 /\ handled'[h + 1] = r
  BY <1>5, <1>9, <1>10
<1>13. h + 1 \in 1 .. Len(M) /\ M[h + 1] = r
  <2> HIDE DEF h
  <2>1. h + 1 <= Len(M) /\ \A k \in 1 .. h + 1 : handled'[k] = M[k]
    BY <1>8, <1>12 DEF Begins
  <2> QED
    BY <1>9, <1>11, <1>12, <2>1
<1>14. M[h + 1].name = {p}
  BY <1>3, <1>4, <1>13, Zenon
<1>15. ServerInStep'
  <2>1. Len(<<>>) < 2
    OBVIOUS
  <2>2. AtHeader(n, b, e)'
    BY <1>3, <1>6, <1>7, <2>1 DEF AtHeader
  <2>3. ServerAt(n, b, e)'
    BY <1>6, <1>s, <2>2 DEF ServerAt
  <2>4. n \in 0 .. Len(script')
    BY <1>6
  <2> QED
    BY <2>3, <2>4, Zenon DEF ServerInStep
<1>p. param = [q \in Params |-> Current(M, h, q)]
  BY DEF Connected, ParamInStep, M
<1>16. param' = [q \in Params |-> Current(M, h + 1, q)]
  <2> HIDE DEF h, p
  <2>1. ASSUME NEW q \in Params
        PROVE  (IF q = p /\ r.value # {} THEN CHOOSE v \in r.value : TRUE ELSE param[q])
                 = Current(M, h + 1, q)
    <3>1. Current(M, h + 1, q) = IF M[h + 1].name = {q} /\ M[h + 1].value # {}
                                 THEN CHOOSE v \in M[h + 1].value : TRUE
                                 ELSE Current(M, h, q)
      BY <1>9, CurrentStep
    <3>2. M[h + 1].name = {q} <=> q = p
      BY <1>14
    <3>3. param[q] = Current(M, h, q)
      BY <1>p
    <3> QED
      BY <1>13, <3>1, <3>2, <3>3
  <2> QED
    BY <1>5, <2>1
<1>17. ParamInStep'
  <2> HIDE DEF h
  <2>1. Meant(script') = M /\ Len(handled') = h + 1
    BY <1>6, <1>12 DEF M
  <2> QED
    BY <1>16, <2>1 DEF ParamInStep
<1>18. GotInStep'
  <2>1. Len(got) <= Len(handled')
    <3>1. Len(got) \in Nat /\ Len(got) <= h
      BY DEF Connected, GotInStep
    <3> QED
      BY <1>9, <1>12, <3>1
  <2> QED
    BY <1>6, <2>1 DEF Connected, GotInStep
<1>19. ClientInStep'
  <2>1. CASE cl = [at |-> "done"]
    BY <1>6, <2>1 DEF ClientInStep
  <2>2. ASSUME NEW c \in Nat, ClientAt(c) PROVE ClientInStep'
    <3>1. /\ cl = [at |-> "header", buf |-> cl.buf] /\ cl.at # "done"
          /\ Cut(fr, Len(got), c, Off(fr, h), cl.buf, s2c)
      BY <2>2 DEF ClientAt
    <3>2. X(param') = ReplyTo(M, h + 1)
      <4>1. Asked(M, h + 1) = p
        <5> HIDE DEF p
        <5> QED
          BY <1>14 DEF Asked
      <4>2. p \in Params => param'[p] = Current(M, h + 1, p)
        BY <1>16
      <4> HIDE DEF p
      <4> QED
        BY <4>1, <4>2 DEF ReplyTo
    <3>3. /\ fr \in Seq(Seq(Byte)) /\ Len(fr) = Len(M)
          /\ fr[h + 1] = ReplyTo(M, h + 1)
      BY <1>0, <1>13, RepliesAre DEF M
    <3>4. s2c' = s2c \o fr[h + 1]
      BY <1>5, <3>1, <3>2, <3>3
    <3> HIDE DEF fr, X
    <3>5. h \in 0 .. Len(fr) /\ h < Len(fr)
      BY <1>9, <1>11, <1>13, <3>3
    <3> HIDE DEF h
    <3>6. Cut(fr, Len(got), c, Off(fr, h + 1), cl.buf, s2c')
      BY <3>1, <3>3, <3>4, <3>5, CutMore
    <3>7. ClientAt(c)'
      BY <1>6, <1>12, <3>1, <3>6 DEF ClientAt, fr
    <3> QED
      BY <3>7, Zenon DEF ClientInStep
  <2> QED
    BY <2>1, <2>2 DEF Connected, ClientInStep
<1> QED
  BY <1>0, <1>6, <1>15, <1>17, <1>18, <1>19 DEF Connected

\* ClientRead: the client stays within the reply.
LEMMA ClientReadStep ==
  ASSUME Connected, NEW k \in 1 .. Len(s2c), ClientRead(k)
  PROVE  Connected'
<1> DEFINE fr == Replies(script)
           nb == cl.buf \o SubSeq(s2c, 1, k)
           nr == SubSeq(s2c, k + 1, Len(s2c))
<1>0. script \in Scripts
  BY DEF Connected
<1>1. /\ cl.at = "header" /\ Len(cl.buf) + k <= Wanted(cl.buf) /\ s2c' = nr
      /\ UNCHANGED <<script, c2s, sv, got, handled, param>>
  BY Zenon DEF ClientRead
<1>2. PICK c \in Nat : ClientAt(c)
  BY <1>1 DEF Connected, ClientInStep
<1>3. /\ cl = [at |-> "header", buf |-> cl.buf]
      /\ Cut(fr, Len(got), c, Off(fr, Len(handled)), cl.buf, s2c)
  BY <1>2 DEF ClientAt
<1>4. cl' = [at |-> "header", buf |-> nb]
  BY <1>3 DEF ClientRead
<1>5. Cut(fr, Len(got), c + k, Off(fr, Len(handled)), nb, nr)
  BY <1>0, <1>1, <1>3, ClientReads
<1>6. c + k \in Nat
  BY <1>5 DEF Cut
<1> HIDE DEF nb, nr
<1>7. cl'.buf = nb /\ cl'.at = "header"
  BY <1>4
<1>8. ClientInStep'
  <2>1. ClientAt(c + k)'
    BY <1>1, <1>4, <1>5, <1>7 DEF ClientAt
  <2> QED
    BY <1>6, <2>1, Zenon DEF ClientInStep
<1>9. ServerInStep'
  <2>1. PICK n \in 0 .. Len(script), b \in Nat, e \in Nat : ServerAt(n, b, e)
    BY DEF Connected, ServerInStep
  <2>2. ServerAt(n, b, e)'
    BY <1>1, <1>7, <2>1 DEF ServerAt, AtHeader, AtServe, AtClosed
  <2>3. n \in 0 .. Len(script')
    BY <1>1
  <2> QED
    BY <2>2, <2>3, Zenon DEF ServerInStep
<1>10. GotInStep' /\ ParamInStep'
  BY <1>1, Zenon DEF Connected, GotInStep, ParamInStep
<1> QED
  BY <1>0, <1>1, <1>8, <1>9, <1>10 DEF Connected

\* ClientFrame: the answer is the one to the next request.
LEMMA ClientFrameStep ==
  ASSUME Connected, ClientFrame
  PROVE  Connected'
<1> DEFINE fr == Replies(script)
           M == Meant(script)
           g == Len(got)
           h == Len(handled)
           x == Expected(M, g + 1)
<1>0. script \in Scripts
  BY DEF Connected
<1>1. /\ cl.at = "header" /\ Len(cl.buf) >= HeaderLen /\ Len(cl.buf) = Wanted(cl.buf)
      /\ UNCHANGED <<script, c2s, sv, handled, param>>
  BY Zenon DEF ClientFrame
<1>2. PICK c \in Nat : ClientAt(c)
  BY <1>1 DEF Connected, ClientInStep
<1>3. /\ cl = [at |-> "header", buf |-> cl.buf]
      /\ Cut(fr, g, c, Off(fr, h), cl.buf, s2c)
  BY <1>2 DEF ClientAt
<1>4. h \in 0 .. Len(M) /\ h \in Nat
  BY HandledIs
<1>5. got \in Seq(Outcomes(M)) /\ g <= h /\ \A k \in 1 .. g : got[k] = Expected(M, k)
  BY DEF Connected, GotInStep
<1>6. g + 1 <= h /\ Understood(cl.buf, x) /\ Cut(fr, g + 1, c, Off(fr, h), <<>>, s2c)
  BY <1>0, <1>1, <1>3, <1>4, <1>5, ClientFrames
<1>7. /\ open_frame(cl.buf) /\ cl.buf[1] = <<GETSET_RPY>> /\ read_tlvs(Payload(cl.buf)).ok
      /\ Answer(read_tlvs(Payload(cl.buf)).tlvs) = x
  BY <1>6 DEF Understood
<1>8. /\ got' = Append(got, x)
      /\ cl' = IF Len(got') < Len(script) THEN [at |-> "header", buf |-> <<>>]
               ELSE [at |-> "done"]
      /\ s2c' = IF cl'.at = "done" THEN <<>> ELSE s2c
  <2> HIDE DEF x
  <2> QED
    BY <1>7, Zenon DEF ClientFrame
<1>9. g \in Nat /\ x \in Outcomes(M)
  BY <1>5 DEF Outcomes
<1> HIDE DEF x, M
<1>10. /\ got' \in Seq(Outcomes(M)) /\ Len(got') = g + 1 /\ got'[g + 1] = x
       /\ \A k \in 1 .. g : got'[k] = got[k]
  BY <1>5, <1>8, <1>9
<1>11. GotInStep'
  <2>1. Meant(script') = M /\ Len(got') <= Len(handled')
    BY <1>1, <1>6, <1>10 DEF M
  <2>2. ASSUME NEW k \in 1 .. Len(got') PROVE got'[k] = Expected(M, k)
    <3>1. CASE k = g + 1
      BY <1>10, <3>1 DEF x
    <3>2. CASE k # g + 1
      <4>1. k \in 1 .. g
        BY <1>9, <1>10, <3>2
      <4> QED
        BY <1>5, <1>10, <4>1
    <3> QED
      BY <3>1, <3>2
  <2> QED
    BY <1>10, <2>1, <2>2 DEF GotInStep
<1>12. ClientInStep'
  <2>1. CASE Len(got') < Len(script)
    <3>1. cl' = [at |-> "header", buf |-> <<>>] /\ cl'.buf = <<>> /\ cl'.at # "done"
      BY <1>8, <2>1
    <3>2. s2c' = s2c
      BY <1>8, <3>1
    <3>3. ClientAt(c)'
      BY <1>1, <1>6, <1>10, <3>1, <3>2 DEF ClientAt
    <3> QED
      BY <3>3, Zenon DEF ClientInStep
  <2>2. CASE ~(Len(got') < Len(script))
    <3>1. cl' = [at |-> "done"]
      BY <1>8, <2>2
    <3> QED
      BY <3>1 DEF ClientInStep
  <2> QED
    BY <2>1, <2>2
<1>13. ServerInStep'
  <2>1. PICK n \in 0 .. Len(script), b \in Nat, e \in Nat : ServerAt(n, b, e)
    BY DEF Connected, ServerInStep
  <2>2. ServerAt(n, b, e)'
    <3>1. cl.at # "done"
      BY <1>1
    <3> QED
      BY <1>1, <2>1, <3>1 DEF ServerAt, AtHeader, AtServe, AtClosed
  <2>3. n \in 0 .. Len(script')
    BY <1>1
  <2> QED
    BY <2>2, <2>3, Zenon DEF ServerInStep
<1>14. ParamInStep'
  BY <1>1 DEF Connected, ParamInStep
<1> QED
  BY <1>0, <1>1, <1>11, <1>12, <1>13, <1>14 DEF Connected

\* ClientGone: what the thread still reads is a beginning of the script.
LEMMA GoneStep ==
  ASSUME Connected, ClientGone
  PROVE  Connected'
<1>0. script \in Scripts
  BY DEF Connected
<1>1. /\ cl.at = "header" /\ cl' = [at |-> "done"]
      /\ UNCHANGED <<script, sv, got, handled, param>>
  BY DEF ClientGone
<1>2. PICK k \in 0 .. Len(c2s) : c2s' = SubSeq(c2s, 1, k)
  BY DEF ClientGone
<1>3. Frames(script) \in Seq(Seq(Byte))
  BY <1>0, ScriptFacts
<1>4. ServerInStep'
  <2>1. PICK n \in 0 .. Len(script), b \in Nat, e \in Nat : ServerAt(n, b, e)
    BY DEF Connected, ServerInStep
  <2>2. n \in 0 .. Len(script') /\ cl'.at = "done" /\ Sound(script', n)
    BY <1>1, <2>1 DEF ServerAt
  <2>3. CASE AtHeader(n, b, e)
    <3>1. Cut(Frames(script), n, b, e, sv.buf, c2s)
      BY <2>3 DEF AtHeader
    <3>2. PICK e2 : Cut(Frames(script), n, b, e2, sv.buf, SubSeq(c2s, 1, k))
      BY <1>3, <3>1, CutLess
    <3>3. AtHeader(n, b, e2)' /\ e2 \in Nat
      BY <1>1, <1>2, <2>3, <3>2 DEF AtHeader, Cut
    <3>4. ServerAt(n, b, e2)'
      BY <2>2, <3>3 DEF ServerAt
    <3> QED
      BY <2>2, <3>3, <3>4, Zenon DEF ServerInStep
  <2>4. CASE AtServe(n, b, e)
    <3>1. Cut(Frames(script), n, b, e, <<>>, c2s)
      BY <2>4 DEF AtServe
    <3>2. PICK e2 : Cut(Frames(script), n, b, e2, <<>>, SubSeq(c2s, 1, k))
      BY <1>3, <3>1, CutLess
    <3>3. AtServe(n, b, e2)' /\ e2 \in Nat
      BY <1>1, <1>2, <2>4, <3>2 DEF AtServe, Cut
    <3>4. ServerAt(n, b, e2)'
      BY <2>2, <3>3 DEF ServerAt
    <3> QED
      BY <2>2, <3>3, <3>4, Zenon DEF ServerInStep
  <2>5. CASE AtClosed(n)
    <3>1. ServerAt(n, b, e)'
      BY <1>1, <2>2, <2>5 DEF ServerAt, AtClosed
    <3> QED
      BY <2>2, <3>1, Zenon DEF ServerInStep
  <2> QED
    BY <2>1, <2>3, <2>4, <2>5 DEF ServerAt
<1>5. ClientInStep'
  BY <1>1 DEF ClientInStep
<1>6. GotInStep' /\ ParamInStep'
  BY <1>1, Zenon DEF Connected, GotInStep, ParamInStep
<1> QED
  BY <1>0, <1>1, <1>4, <1>5, <1>6 DEF Connected

\* Every step preserves the invariant of a connection.
LEMMA WireInvStep ==
  ASSUME WireInv, [WireNext]_wireVars
  PROVE  WireInv'
<1>1. ASSUME UNCHANGED <<script, c2s, s2c, sv, cl, got, handled, param>> PROVE WireInv'
  <2>1. CASE Unconnected
    BY <1>1, <2>1 DEF Unconnected, WireInv
  <2>2. CASE Connected
    <3>1. ServerInStep'
      <4>1. PICK n \in 0 .. Len(script), b \in Nat, e \in Nat : ServerAt(n, b, e)
        BY <2>2 DEF Connected, ServerInStep
      <4>2. ServerAt(n, b, e)'
        BY <1>1, <4>1 DEF ServerAt, AtHeader, AtServe, AtClosed
      <4>3. n \in 0 .. Len(script')
        BY <1>1
      <4> QED
        BY <4>2, <4>3, Zenon DEF ServerInStep
    <3> QED
      BY <1>1, <2>2, <3>1, ClientSideKept DEF Connected, WireInv
  <2> QED
    BY <2>1, <2>2 DEF WireInv
<1>2. CASE UNCHANGED wireVars
  BY <1>1, <1>2 DEF wireVars
<1>3. ASSUME NEW d \in Datagrams, NEW c \in Configs, Discover(d, c) PROVE WireInv'
  BY <1>1, <1>3 DEF Discover
<1>4. ASSUME NEW s \in Scripts, Connect(s) PROVE WireInv'
  <2>1. Unconnected
    <3>1. cl.at = "idle"
      BY <1>4 DEF Connect
    <3>2. ~Connected
      BY <3>1 DEF Connected, ClientInStep, ClientAt
    <3> QED
      BY <3>2 DEF WireInv
  <2> QED
    BY <1>4, <2>1, ConnectStep DEF WireInv
<1>5. ASSUME Server PROVE WireInv'
  <2>1. sv.at \in {"header", "serve"}
    BY <1>5, Zenon DEF Server, Read, ReadEof, Frame, Serve
  <2>2. Connected
    BY <2>1 DEF WireInv, Unconnected
  <2>3. Connected'
    BY <1>5, <2>2, ReadStep, EofStep, FrameStep, ServeStep, Zenon DEF Server
  <2> QED
    BY <2>3 DEF WireInv
<1>6. ASSUME Client PROVE WireInv'
  <2>1. cl.at = "header"
    BY <1>6, Zenon DEF Client, ClientRead, ClientFrame, ClientGone
  <2>2. Connected
    BY <2>1 DEF WireInv, Unconnected
  <2>3. Connected'
    BY <1>6, <2>2, ClientReadStep, ClientFrameStep, GoneStep, Zenon DEF Client
  <2> QED
    BY <2>3 DEF WireInv
<1> QED
  BY <1>2, <1>3, <1>4, <1>5, <1>6, Zenon DEF WireNext

\* The initial state satisfies it.
LEMMA WireInvInit == WireInit => WireInv
BY Zenon DEF WireInit, WireInv, Unconnected

\* A frame under way is never longer than a packet.
LEMMA BufferFits ==
  ASSUME Connected
  PROVE  /\ sv.at = "header" => Len(sv.buf) <= MaxPacket
         /\ cl.at = "header" => Len(cl.buf) <= MaxPacket
<1>0. script \in Scripts /\ MaxPacket \in Nat /\ MaxPacket >= 2
  BY Bounds DEF Connected
<1>1. ASSUME sv.at = "header" PROVE Len(sv.buf) <= MaxPacket
  <2> DEFINE fr == Frames(script)
  <2>1. PICK n \in 0 .. Len(script), b \in Nat, e \in Nat : ServerAt(n, b, e)
    BY DEF Connected, ServerInStep
  <2>2. Cut(fr, n, b, e, sv.buf, c2s) /\ (NextAbsurd(script, n) => Len(sv.buf) < 2)
    BY <1>1, <2>1 DEF ServerAt, AtHeader, AtServe, AtClosed
  <2>3. fr \in Seq(Seq(Byte)) /\ Len(fr) = Len(script) /\ Len(script) \in Nat
    BY <1>0, ScriptFacts
  <2>4. /\ Len(sv.buf) \in Nat /\ (n = Len(fr) => sv.buf = <<>>)
        /\ n < Len(fr) => Len(sv.buf) <= Len(fr[n + 1])
    BY <2>2, <2>3, CutFacts
  <2>5. CASE n = Len(fr)
    BY <1>0, <2>4, <2>5
  <2>6. CASE NextAbsurd(script, n)
    BY <1>0, <2>2, <2>4, <2>6
  <2>7. CASE n < Len(fr) /\ ~NextAbsurd(script, n)
    <3>1. n + 1 \in 1 .. Len(script) /\ script[n + 1].kind # "absurd"
      BY <2>3, <2>7 DEF NextAbsurd
    <3>2. FrameOK(script[n + 1]) /\ fr[n + 1] = Bytes(script[n + 1])
      BY <1>0, <3>1, ScriptFacts
    <3>3. Announced(fr[n + 1]) /\ Len(fr[n + 1]) <= MaxPacket
      BY <3>1, <3>2, FrameServed
    <3> QED
      BY <1>0, <2>4, <2>7, <3>3 DEF Announced
  <2> QED
    BY <2>3, <2>5, <2>6, <2>7
<1>2. ASSUME cl.at = "header" PROVE Len(cl.buf) <= MaxPacket
  <2> DEFINE fr == Replies(script)
             g == Len(got)
             e == Off(fr, Len(handled))
  <2>1. PICK c \in Nat : ClientAt(c)
    BY <1>2 DEF Connected, ClientInStep
  <2>2. Cut(fr, g, c, e, cl.buf, s2c)
    BY <2>1 DEF ClientAt
  <2>3. fr \in Seq(Seq(Byte)) /\ Len(fr) = Len(Meant(script)) /\ Len(fr) \in Nat
    BY <1>0, RepliesAre
  <2>4. g \in 0 .. Len(fr)
    BY <2>2 DEF Cut
  <2>5. /\ Len(cl.buf) \in Nat /\ (g = Len(fr) => cl.buf = <<>>)
        /\ g < Len(fr) => Len(cl.buf) <= Len(fr[g + 1])
    <3> HIDE DEF fr, g, e
    <3> QED
      BY <2>2, <2>3, CutFacts
  <2>6. CASE g = Len(fr)
    BY <1>0, <2>5, <2>6
  <2>7. CASE g < Len(fr)
    <3>1. g + 1 \in 1 .. Len(Meant(script))
      BY <2>3, <2>4, <2>7
    <3>2. Announced(fr[g + 1]) /\ Len(fr[g + 1]) <= MaxPacket
      BY <1>0, <3>1, RepliesAre DEF Understood
    <3> QED
      BY <1>0, <2>5, <2>7, <3>2 DEF Announced
  <2> QED
    BY <2>3, <2>4, <2>6, <2>7
<1> QED
  BY <1>1, <1>2

\* Begins is IsPrefix, element by element.
LEMMA PrefixIsBegins ==
  ASSUME NEW R, NEW a \in Seq(R), NEW m \in Seq(R), Begins(a, m)
  PROVE  IsPrefix(a, m)
<1> DEFINE x == SubSeq(a, 1, Len(a))
           y == SubSeq(m, 1, Len(a))
<1>1. Len(a) <= Len(m) /\ \A k \in 1 .. Len(a) : a[k] = m[k]
  BY DEF Begins
<1>2. x = y
  BY <1>1
<1> QED
  BY <1>1, <1>2 DEF IsPrefix

\* The thread never loses its place in the byte stream, whatever it passes over
\* or rejects and however reads are split (conn_thread_main, read_full,
\* hdhr_pkt_read_tlv): for any scripts, capacities and parameters.
THEOREM ThreadInStep == WireSpec => []StreamInStep
<1>1. WireInv => StreamInStep
  <2>1. ASSUME Unconnected PROVE StreamInStep
    <3>1. /\ sv.at = "none" /\ cl.at = "idle" /\ handled = <<>> /\ script = <<>>
          /\ param = [p \in Params |-> Initially]
      BY <2>1 DEF Unconnected
    <3>2. \A p \in Params : Len(param[p]) < ValueCap
      BY <3>1, ShortTexts DEF Kept
    <3>3. WireTypeOK
      BY <3>1, <3>2 DEF WireTypeOK
    <3>4. Meant(<<>>) = <<>>
      <4>1. Len(<<>>) \in Nat /\ Len(<<>>) = 0
        OBVIOUS
      <4> DEFINE s == <<>>
      <4>2. Len(s) \in Nat /\ Len(s) = 0
        BY <4>1
      <4> HIDE DEF s
      <4>3. Meant(s) = MeantAt(s)[Len(s)] /\ MeantAt(s)[0] = <<>>
        BY <4>2, MeantDef
      <4> QED
        BY <4>2, <4>3 DEF s
    <3>5. IsPrefix(handled, Meant(script))
      BY <3>1, <3>4 DEF IsPrefix
    <3> QED
      BY <3>1, <3>3, <3>5 DEF StreamInStep, InStep
  <2>2. ASSUME Connected PROVE StreamInStep
    <3>0. script \in Scripts /\ Len(script) \in Nat
      BY <2>2, ScriptFacts DEF Connected
    <3>1. PICK n \in 0 .. Len(script), b \in Nat, e \in Nat : ServerAt(n, b, e)
      BY <2>2 DEF Connected, ServerInStep
    <3>2. cl.at \in {"header", "done"}
      BY <2>2 DEF Connected, ClientInStep, ClientAt
    <3>3. sv.at \in {"header", "serve", "closed"}
      BY <3>1 DEF ServerAt, AtHeader, AtServe, AtClosed
    <3>4. \A p \in Params : Len(param[p]) < ValueCap
      <4>1. ASSUME NEW p \in Params PROVE Len(param[p]) < ValueCap
        <5>1. param[p] = Current(Meant(script), Len(handled), p)
          BY <2>2 DEF Connected, ParamInStep
        <5>2. Len(handled) \in 0 .. Len(Meant(script))
          BY <2>2, HandledIs
        <5>3. Kept(param[p])
          BY <3>0, <5>1, <5>2, CurrentKept
        <5> QED
          BY <5>3 DEF Kept
      <4> QED
        BY <4>1
    <3>5. WireTypeOK
      BY <2>2, <3>2, <3>3, <3>4, BufferFits DEF WireTypeOK
    <3>6. IsPrefix(handled, Meant(script))
      <4>1. handled \in Seq(Requests(script)) /\ Begins(handled, Meant(script))
        BY <2>2, HandledIs
      <4>2. Meant(script) \in Seq(Requests(script))
        BY <3>0, MeantIs
      <4> QED
        BY <4>1, <4>2, PrefixIsBegins
    <3>7. ASSUME sv.at = "header", sv.buf = <<>>, c2s = <<>>, cl.at # "done"
          PROVE  handled = Meant(script)
      <4>1. AtHeader(n, b, e) /\ e = Len(FlattenSeq(Frames(script)))
        BY <3>1, <3>7 DEF ServerAt, AtServe, AtClosed
      <4>2. Cut(Frames(script), n, b, Len(FlattenSeq(Frames(script))), <<>>, <<>>)
        BY <3>7, <4>1 DEF AtHeader
      <4>3. n = Len(script)
        BY <3>0, <4>2, AllTaken
      <4>4. handled = MeantAt(script)[Len(script)]
        BY <4>1, <4>3 DEF AtHeader
      <4> QED
        BY <3>0, <4>4, MeantDef
    <3> QED
      BY <3>5, <3>6, <3>7 DEF StreamInStep, InStep
  <2> QED
    BY <2>1, <2>2 DEF WireInv
<1> QED
  BY <1>1, WireInvInit, WireInvStep, PTL DEF WireSpec

\* The client's k-th answer is the daemon's to its k-th served request, with
\* every earlier SET in effect (dispatch_getset, getset_client_call).
THEOREM AnswersAreTheirs == WireSpec => []AnswersMatch
<1>1. WireInv => AnswersMatch
  <2>1. ASSUME Unconnected PROVE AnswersMatch
    BY <2>1 DEF Unconnected, AnswersMatch
  <2>2. ASSUME Connected PROVE AnswersMatch
    <3> DEFINE M == Meant(script)
    <3>1. /\ got \in Seq(Outcomes(M)) /\ Len(got) <= Len(handled)
          /\ \A k \in 1 .. Len(got) : got[k] = Expected(M, k)
      BY <2>2 DEF Connected, GotInStep
    <3>2. Len(handled) \in Nat
      BY <2>2, HandledIs
    <3> HIDE DEF M
    <3>3. DOMAIN got = 1 .. Len(got) /\ Len(got) \in Nat
      BY <3>1
    <3>4. \A k \in DOMAIN got : k <= Len(handled)
      BY <3>1, <3>2, <3>3
    <3>5. ASSUME NEW k \in DOMAIN got
          PROVE  LET p == CHOOSE n \in M[k].name : TRUE
                 IN  got[k] = IF p \in Params THEN Outcome(TRUE, Current(M, k, p))
                              ELSE Outcome(FALSE, Error)
      BY <3>1, <3>3, Zenon DEF Expected, Asked
    <3> QED
      BY <3>4, <3>5, Zenon DEF AnswersMatch, M
  <2> QED
    BY <2>1, <2>2 DEF WireInv
<1> QED
  BY <1>1, WireInvInit, WireInvStep, PTL DEF WireSpec
=============================================================================
