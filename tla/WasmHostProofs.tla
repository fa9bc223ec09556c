--------------------------- MODULE WasmHostProofs ---------------------------
(***************************************************************************)
(* The handle table for every table size: what is live is never given out  *)
(* again, and what was freed is given out again as late as possible.  The  *)
(* C# host and the module over it for every number of threads, wrappers    *)
(* and arguments: HostInv is inductive.                                    *)
(***************************************************************************)
EXTENDS WasmHost, TLAPS

-----------------------------------------------------------------------------
(* The handle table *)

\* On the circle of handles: what lies beyond n as seen from a, and not beyond
\* f, is reached from n before f is.
LEMMA BetweenIsNearer ==
    ASSUME NEW a \in Handle, NEW n \in Handle, NEW k \in Handle, NEW f \in Handle,
           k # f,
           Ahead(a, n) < Ahead(a, k),
           Ahead(a, k) <= Ahead(a, f) \/ f = a
    PROVE  Steps(n, k) < Steps(n, f)
  BY HandleAssumption DEF Handle, Ahead, Steps

\* store: the handles the counter passes are live, so each of them has been met
\* by every handle given out before.
LEMMA PassedAreLive ==
    ASSUME IInv, NEW f \in Handle, Fresh(f), NEW a \in Handle, metSince[a] # {},
           NEW k \in Handle, Ahead(a, k) <= Ahead(a, f) \/ f = a
    PROVE  k \in metSince[a] \cup Live \cup {f}
  <1>1. next \in Handle
    BY DEF IInv, TypeOK, PassedMet, Handle
  <1>2. CASE Ahead(a, k) <= Ahead(a, next)
    BY <1>2 DEF IInv, PassedMet
  <1>3. CASE ~(Ahead(a, k) <= Ahead(a, next)) /\ k # f
    <2>1. Ahead(a, next) < Ahead(a, k)
      BY <1>1, <1>3, HandleAssumption DEF Ahead, Handle
    <2>2. Steps(next, k) < Steps(next, f)
      BY <1>1, <1>3, <2>1, BetweenIsNearer
    <2>3. Steps(next, k) \in Int /\ Steps(next, f) \in Int
      BY <1>1, HandleAssumption DEF Steps, Handle
    <2>4. k \in Live
      BY <2>2, <2>3 DEF Fresh
    <2> QED BY <2>4
  <1> QED BY <1>2, <1>3

LEMMA StoreStep ==
    ASSUME IInv, NEW v \in Value, Store(v)
    PROVE  IInv'
  <1> PICK f \in Handle :
        /\ Fresh(f)
        /\ next' = f
        /\ entries' = [entries EXCEPT ![f] = v]
        /\ answer' = f
        /\ metSince' = [k \in Handle |->
                            IF k = f THEN Live \cup {f}
                            ELSE IF metSince[k] = {} THEN {}
                            ELSE metSince[k] \cup Live \cup {f}]
    BY DEF Store
  <1>1. Live \in SUBSET Handle
    BY DEF Live
  <1>2. TypeOK'
    <2>1. metSince \in [Handle -> SUBSET Handle]
      BY DEF IInv, TypeOK
    <2>2. metSince' \in [Handle -> SUBSET Handle]
      BY <1>1, <2>1
    <2>3. entries' \in [Handle -> Value \cup {None}]
      BY DEF IInv, TypeOK
    <2>4. next' \in 0..MaxHandle /\ answer' \in Handle
      BY HandleAssumption DEF Handle
    <2> QED BY <2>2, <2>3, <2>4 DEF TypeOK
  <1>3. LiveMet'
    <2> SUFFICES ASSUME NEW h \in Live' PROVE metSince'[h] # {}
      BY DEF LiveMet
    <2>1. h \in Handle /\ (h = f \/ h \in Live)
      BY DEF Live, IInv, TypeOK
    <2> QED BY <2>1 DEF IInv, LiveMet
  <1>4. PassedMet'
    <2> SUFFICES ASSUME NEW h \in Handle, metSince'[h] # {}
                 PROVE  /\ f # 0
                        /\ \A k \in Handle : Ahead(h, k) <= Ahead(h, f)
                              => k \in metSince'[h]
      BY DEF PassedMet, Ahead
    <2>1. CASE h = f
      <3>1. Ahead(f, f) = 0
        BY HandleAssumption DEF Ahead, Handle
      <3>2. \A k \in Handle : Ahead(f, k) <= 0 => k = f
        BY HandleAssumption DEF Ahead, Handle
      <3> QED BY <2>1, <3>1, <3>2, HandleAssumption DEF Handle
    <2>2. CASE h # f
      <3>1. metSince[h] # {} /\ metSince'[h] = metSince[h] \cup Live \cup {f}
        BY <2>2
      <3> QED BY <3>1, PassedAreLive, HandleAssumption DEF Handle
    <2> QED BY <2>1, <2>2
  <1> QED BY <1>2, <1>3, <1>4 DEF IInv

\* Every call of the table keeps its inductive invariant.
LEMMA RegistryKeeps ==
    ASSUME IInv, [Next]_vars
    PROVE  IInv'
  <1>1. ASSUME NEW v \in Value, Store(v) PROVE IInv'
    BY <1>1, StoreStep
  <1>2. ASSUME NEW h \in Handle \cup {0}, With(h) PROVE IInv'
    BY <1>2 DEF With, IInv, TypeOK, PassedMet, LiveMet, Live, Ahead
  <1>3. ASSUME NEW h \in Handle \cup {0}, NEW v \in Value, WithMut(h, v) PROVE IInv'
    BY <1>3, HandleAssumption DEF WithMut, IInv, TypeOK, PassedMet, LiveMet, Live, Ahead
  <1>4. ASSUME NEW h \in Handle \cup {0}, Remove(h) PROVE IInv'
    BY <1>4, HandleAssumption DEF Remove, IInv, TypeOK, PassedMet, LiveMet, Live, Ahead
  <1>5. CASE UNCHANGED vars
    BY <1>5 DEF vars, IInv, TypeOK, PassedMet, LiveMet, Live, Ahead
  <1> QED BY <1>1, <1>2, <1>3, <1>4, <1>5 DEF Next

\* The table is empty at first.
LEMMA RegistryStarts ==
    ASSUME Init
    PROVE  IInv
  BY HandleAssumption DEF Init, IInv, TypeOK, PassedMet, LiveMet, Live, Handle

\* The inductive invariant: since a handle was given out, everything the
\* counter passed was live at the time.
THEOREM Invariance == Spec => []IInv
  <1>1. Init => IInv
    BY RegistryStarts
  <1>2. IInv /\ [Next]_vars => IInv'
    BY RegistryKeeps
  <1> QED BY <1>1, <1>2, PTL DEF Spec

\* No call of store disturbs a live entry, also after the counter has wrapped.
THEOREM EntriesKept == Spec => StoreKeepsEntries
  <1>1. IInv /\ [Next]_vars =>
          [answer' \in Handle => \A h \in Live : entries'[h] = entries[h]]_vars
    <2> SUFFICES ASSUME IInv, Next, answer' \in Handle, NEW h \in Live
                 PROVE  entries'[h] = entries[h]
      OBVIOUS
    <2>1. ASSUME NEW v \in Value, Store(v) PROVE entries'[h] = entries[h]
      BY <2>1 DEF Store, Fresh, IInv, TypeOK
    <2>2. ASSUME NEW k \in Handle \cup {0}, With(k) PROVE entries'[h] = entries[h]
      BY <2>2 DEF With
    <2>3. ASSUME NEW k \in Handle \cup {0}, NEW v \in Value, WithMut(k, v)
          PROVE entries'[h] = entries[h]
      BY <2>3, HandleAssumption DEF WithMut, Handle
    <2>4. ASSUME NEW k \in Handle \cup {0}, Remove(k) PROVE entries'[h] = entries[h]
      BY <2>4, HandleAssumption DEF Remove, Handle
    <2> QED BY <2>1, <2>2, <2>3, <2>4 DEF Next
  <1> QED BY <1>1, Invariance, PTL DEF Spec, StoreKeepsEntries

\* Where store hands a handle out again, it met every other one.
LEMMA ReuseMetAll ==
    ASSUME IInv, Next, answer' \in Handle, metSince[answer'] # {}
    PROVE  metSince[answer'] \cup Live \cup {answer'} = Handle
  <1>1. ASSUME NEW v \in Value, Store(v)
        PROVE  metSince[answer'] \cup Live \cup {answer'} = Handle
    <2>1. Fresh(answer')
      BY <1>1 DEF Store
    <2>2. \A k \in Handle : k \in metSince[answer'] \cup Live \cup {answer'}
      BY <2>1, PassedAreLive
    <2> QED BY <2>2 DEF IInv, TypeOK, Live
  <1>2. ASSUME NEW h \in Handle \cup {0}, With(h) PROVE FALSE
    BY <1>2, HandleAssumption DEF With, IInv, TypeOK, Handle
  <1>3. ASSUME NEW h \in Handle \cup {0}, NEW v \in Value, WithMut(h, v) PROVE FALSE
    BY <1>3, HandleAssumption DEF WithMut, Handle
  <1>4. ASSUME NEW h \in Handle \cup {0}, Remove(h) PROVE FALSE
    BY <1>4, HandleAssumption DEF Remove, Handle
  <1> QED BY <1>1, <1>2, <1>3, <1>4 DEF Next

\* A freed handle is given out again only when every other handle has been in
\* use since it was given out before.
THEOREM StaleHandlesLast == Spec => ReusedLast
  <1>1. IInv /\ [Next]_vars =>
          [answer' \in Handle /\ metSince[answer'] # {} =>
             metSince[answer'] \cup Live \cup {answer'} = Handle]_vars
    BY ReuseMetAll
  <1> QED BY <1>1, Invariance, PTL DEF Spec, ReusedLast
-----------------------------------------------------------------------------
(* The host and the module *)

\* What is known of a thread's call, and of the variables it works with.
LEMMA HostTypes ==
    ASSUME HostInv, NEW t \in Thread
    PROVE  /\ call \in [Thread -> [at : Place, kind : Kind \cup {"none"},
                                   of : Wrapper \cup {None}, uses : Wrapper \cup {None},
                                   left : Nat, owned : Nat, held : 0..1,
                                   got : Wrapper \cup Handle \cup {None}, reply : Tag,
                                   outcome : {"none", "value", "refused", "error"},
                                   code : Tag, message : Tag]]
           /\ wrappers \in [Wrapper -> [handle : Handle \cup {0},
                                        state : {"none", "live", "disposed"}]]
           /\ entries \in [Handle -> Value \cup {None}]
           /\ disposed \in BOOLEAN
           /\ CallShape(t) /\ Confinement(t) /\ OwnSlots(t) /\ OwnObject(t) /\ Making(t)
           /\ None \notin Thread /\ None \notin Value /\ None \notin Handle
           /\ "earlier" \notin Thread
  <1>1. None \notin Thread /\ None \notin Value /\ None \notin Handle /\ "earlier" \notin Thread
    BY HandleAssumption, ThreadAssumption DEF Handle
  <1> QED BY <1>1 DEF HostInv, HostTypeOK, IInv, TypeOK, ThreadInv

\* An object reached through a wrapper that is not disposed of is its own.
LEMMA ReachesOwn ==
    ASSUME HostInv, ~disposed, NEW w \in Wrapper, wrappers[w].state # "none",
           HandleOf(w) \in Live
    PROVE  /\ entries[HandleOf(w)] \in Wrapper
           /\ entries[HandleOf(w)] = w \/ wrappers[w].state = "disposed"
  BY DEF HostInv, WrapperOwnsObject, HostTypeOK, IInv, TypeOK, Live, Wrapper

\* Every step of a host is a call of the handle table, or none.
LEMMA HostUsesRegistry ==
    ASSUME HostInv, [HostNext]_allVars
    PROVE  [Next]_vars
  <1>1. ASSUME NEW t \in Thread, Step(t)
        PROVE  [Next]_vars
    <2> DEFINE c == call[t]
    <2>0. /\ c.uses \in Wrapper \cup {None} /\ (~At(t, "idle") => c.of \in Wrapper)
          /\ \A w \in Wrapper : HandleOf(w) \in Handle \cup {0}
      BY HostTypes DEF CallShape, HandleOf
    <2>1. CASE ArgumentUnknown(t)
      <3>1. c.uses \in Wrapper
        BY <2>0, <2>1 DEF ArgumentUnknown, Known
      <3> QED BY <2>0, <2>1, <3>1 DEF ArgumentUnknown, Next
    <2>2. CASE Make(t)
      BY <2>0, <2>2 DEF Make, At, Next, Wrapper
    <2>3. CASE Read(t) \/ OpenSession(t)
      <3>1. With(HandleOf(c.of)) /\ c.of \in Wrapper
        BY <2>0, <2>3 DEF Read, OpenSession, At
      <3> QED BY <2>0, <3>1 DEF Next
    <2>4. CASE Change(t)
      <3> DEFINE h == HandleOf(c.of)
                 v == IF h \in Live THEN entries[h] ELSE c.of
      <3>1. WithMut(h, v) /\ c.of \in Wrapper
        BY <2>0, <2>4 DEF Change, At
      <3>2. v \in Value
        <4>1. entries \in [Handle -> Value \cup {None}]
          BY HostTypes
        <4> QED BY <3>1, <4>1 DEF Live, Wrapper
      <3> QED BY <2>0, <3>1, <3>2 DEF Next
    <2>5. CASE WriteText(t) \/ WriteBytes(t) \/ Invoke(t) \/ Fail(t) \/ Fetch(t) \/ Take(t)
               \/ Complete(t) \/ TakeHandle(t) \/ TakeResult(t) \/ ReadCode(t)
               \/ ReadMessage(t) \/ Unwind(t)
      BY <2>5 DEF WriteText, WriteBytes, Invoke, Fail, Fetch, Take, Complete, TakeHandle,
                  TakeResult, ReadCode, ReadMessage, Unwind
    <2> QED BY <1>1, <2>1, <2>2, <2>3, <2>4, <2>5 DEF Step
  <1>2. ASSUME NEW t \in Thread, NEW kind, NEW w, NEW u, Begin(t, kind, w, u)
        PROVE  [Next]_vars
    BY <1>2 DEF Begin
  <1>3. ASSUME NEW t \in Thread, NEW w \in Wrapper, DisposeWrapper(t, w)
        PROVE  [Next]_vars
    <2>1. HandleOf(w) \in Handle \cup {0}
      BY HostTypes DEF HandleOf
    <2> QED BY <1>3, <2>1 DEF DisposeWrapper, Next
  <1>4. ASSUME NEW t \in Thread, DisposeRuntime(t)
        PROVE  [Next]_vars
    BY <1>4 DEF DisposeRuntime
  <1>5. CASE UNCHANGED allVars
    BY <1>5 DEF allVars
  <1> QED BY <1>1, <1>2, <1>3, <1>4, <1>5 DEF HostNext

\* An export leaves every live entry as it is.
LEMMA ExportsKeepEntries ==
    ASSUME HostInv, NEW t \in Thread, Step(t), NEW h \in Live
    PROVE  entries'[h] = entries[h] /\ h \in Live'
  <1>1. entries \in [Handle -> Value \cup {None}] /\ h \in Handle /\ entries[h] # None
    BY HostTypes DEF Live
  <1>2. CASE Make(t)
    <2>1. PICK f \in Handle : Fresh(f) /\ entries' = [entries EXCEPT ![f] = call[t].of]
      BY <1>2 DEF Make, Store
    <2>2. f # h
      BY <2>1 DEF Fresh
    <2> QED BY <1>1, <2>1, <2>2 DEF Live
  <1>3. CASE Change(t)
    <2> DEFINE k == HandleOf(call[t].of)
    <2>1. entries' = entries \/ (k \in Live /\ entries' = [entries EXCEPT ![k] = entries[k]])
      BY <1>3 DEF Change, WithMut
    <2> QED BY <1>1, <2>1 DEF Live
  <1>4. CASE ~Make(t) /\ ~Change(t)
    <2>1. entries' = entries
      BY <1>4 DEF Step, WriteText, WriteBytes, Invoke, Fail, Fetch, Take, Complete, TakeHandle,
                  TakeResult, ReadCode, ReadMessage, Unwind, ArgumentUnknown, Read, OpenSession,
                  With, vars
    <2> QED BY <1>1, <2>1 DEF Live
  <1> QED BY <1>2, <1>3, <1>4

\* A step of a thread is about its own call, and only the owner's steps touch
\* what threads share.
LEMMA StepsAreOwn ==
    ASSUME HostInv, NEW t \in Thread, Step(t)
    PROVE  /\ \A s \in Thread \ {t} : call'[s] = call[s]
           /\ ~At(t, "idle") /\ disposed' = disposed
           /\ t # Owner => pending' = pending /\ lastError' = lastError
           /\ wrappers' = wrappers \/ TakeHandle(t)
           /\ call'[t].at # "idle" => call'[t].of = call[t].of /\ call'[t].kind = call[t].kind
           /\ call'[t].owned = call[t].owned \/ call'[t].owned = call[t].owned + 1
              \/ call'[t].at = "idle"
  <1> DEFINE c == call[t]
  <1>0. /\ call \in [Thread -> [at : Place, kind : Kind \cup {"none"},
                                of : Wrapper \cup {None}, uses : Wrapper \cup {None},
                                left : Nat, owned : Nat, held : 0..1,
                                got : Wrapper \cup Handle \cup {None}, reply : Tag,
                                outcome : {"none", "value", "refused", "error"},
                                code : Tag, message : Tag]]
        /\ c.at \in Past => t = Owner
    BY HostTypes DEF Confinement
  <1>1. CASE WriteText(t) \/ WriteBytes(t) \/ Invoke(t)
    BY <1>0, <1>1 DEF WriteText, WriteBytes, Invoke, Written, CopyThrows, CopyThrowsUnregistered,
                      NotAllocated, Refused, Goes, At
  <1>2. CASE Fail(t) \/ ArgumentUnknown(t)
    BY <1>0, <1>2 DEF Fail, ArgumentUnknown, FailsWith, Goes, At, Past, Inside
  <1>3. CASE Make(t)
    BY <1>0, <1>3 DEF Make, Returns, At, Past, Inside
  <1>4. CASE Read(t) \/ Change(t)
    BY <1>0, <1>4 DEF Read, Change, Returns, FailsWith, Goes, At, Past, Inside
  <1>5. CASE OpenSession(t) \/ Fetch(t) \/ Take(t) \/ Complete(t)
    BY <1>0, <1>5 DEF OpenSession, Fetch, Take, Complete, Returns, FailsWith, Goes, At, Past,
                      Inside
  <1>6. CASE TakeHandle(t) \/ TakeResult(t)
    BY <1>0, <1>6 DEF TakeHandle, TakeResult, At
  <1>7. CASE ReadCode(t) \/ ReadMessage(t)
    BY <1>0, <1>7 DEF ReadCode, ReadMessage, Refused, At
  <1>8. CASE Unwind(t)
    BY <1>0, <1>8 DEF Unwind, NoCall, At
  <1> QED BY <1>1, <1>2, <1>3, <1>4, <1>5, <1>6, <1>7, <1>8 DEF Step

\* What is known of a thread's call survives the steps of the other threads.
LEMMA OthersKeep ==
    ASSUME HostInv, NEW t \in Thread, Step(t), NEW s \in Thread \ {t}
    PROVE  ThreadInv(s)'
  <1>1. /\ call'[s] = call[s] /\ disposed' = disposed /\ ~At(t, "idle")
        /\ t # Owner => pending' = pending /\ lastError' = lastError
        /\ \A r \in Thread \ {t} : call'[r] = call[r]
        /\ call'[t].at # "idle" => call'[t].of = call[t].of
    BY StepsAreOwn
  <1>2. CallShape(s) /\ Confinement(s) /\ OwnSlots(s) /\ OwnObject(s) /\ Making(s)
        /\ CallShape(t) /\ Making(t)
    BY HostTypes
  <1>3. \A w \in Wrapper : wrappers'[w] # wrappers[w] =>
            /\ w = call[t].of /\ wrappers'[w].state = "live"
            /\ ~At(s, "idle") => w # call[s].of
    <2>1. CASE TakeHandle(t)
      BY <1>2, <2>1, HostTypes DEF TakeHandle, Making, At
    <2> QED BY <2>1, StepsAreOwn
  <1>4. CallShape(s)' /\ Confinement(s)'
    BY <1>1, <1>2 DEF CallShape, Confinement, At
  <1>5. OwnSlots(s)'
    <2>1. CASE t = Owner
      <3>1. call[s].at \notin Past
        BY <1>2, <2>1 DEF Confinement
      <3> QED BY <1>1, <1>2, <3>1 DEF OwnSlots, At, Past, Inside
    <2>2. CASE t # Owner
      BY <1>1, <1>2, <2>2 DEF OwnSlots, At
    <2> QED BY <2>1, <2>2
  <1>6. OwnObject(s)'
    <2>1. ~At(s, "idle") =>
            call[s].of \in Wrapper /\ wrappers'[call[s].of] = wrappers[call[s].of]
      BY <1>2, <1>3 DEF CallShape
    <2>2. Answering(s) => ~At(s, "idle")
      BY <1>2 DEF Answering, CallShape, At
    <2> QED BY <1>1, <1>2, <2>1, <2>2 DEF OwnObject, Answering, At
  <1>7. Making(s)'
    <2> SUFFICES ASSUME ~At(s, "idle"), call[s].kind = "make" PROVE Making(s)'
      BY <1>1 DEF Making, At
    <2>1. call[s].of \in Wrapper /\ wrappers'[call[s].of] = wrappers[call[s].of]
      BY <1>2, <1>3 DEF CallShape
    <2>2. \A r \in Thread \ {s} : call'[r].at # "idle" => call'[r].of # call[s].of
      BY <1>1, <1>2 DEF Making, At
    <2>3. At(s, "returned") /\ ~disposed =>
            call[s].got \in Live' /\ entries'[call[s].got] = call[s].of
      BY <1>2, ExportsKeepEntries DEF Making
    <2> QED BY <1>1, <1>2, <2>1, <2>2, <2>3 DEF Making, At
  <1> QED BY <1>4, <1>5, <1>6, <1>7 DEF ThreadInv

\* Writing arguments, and entering the module or being refused.
LEMMA EntryKeeps ==
    ASSUME HostInv, NEW t \in Thread, WriteText(t) \/ WriteBytes(t) \/ Invoke(t)
    PROVE  ThreadInv(t)'
  <1>1. /\ CallShape(t) /\ OwnSlots(t) /\ OwnObject(t) /\ Making(t)
        /\ At(t, "arguments") /\ wrappers' = wrappers /\ vars' = vars /\ Live' = Live
        /\ disposed' = disposed
    BY HostTypes DEF WriteText, WriteBytes, Invoke, Live, vars, Handle
  <1>2. /\ call'[t].of = call[t].of /\ call'[t].kind = call[t].kind
        /\ call'[t].held = call[t].held /\ call'[t].reply = call[t].reply
        /\ \/ call'[t].at = "arguments" /\ call'[t].outcome = call[t].outcome
           \/ call'[t].at = "inside" /\ call'[t].outcome = call[t].outcome
              /\ t = Owner /\ ~disposed
           \/ call'[t].at = "unwinding" /\ call'[t].outcome = "refused"
    BY <1>1, HostTypes DEF WriteText, WriteBytes, Invoke, Written, CopyThrows,
                           CopyThrowsUnregistered, NotAllocated, Refused, Goes, Usable, At
  <1>3. \A s \in Thread \ {t} : call'[s] = call[s]
    BY <1>1, StepsAreOwn DEF Step
  <1>4. CallShape(t)' /\ Confinement(t)'
    BY <1>1, <1>2 DEF CallShape, Confinement, At, Past, Inside
  <1>5. OwnSlots(t)' /\ OwnObject(t)'
    BY <1>1, <1>2 DEF CallShape, OwnSlots, OwnObject, Answering, At
  <1>6. Making(t)'
    BY <1>1, <1>2, <1>3 DEF Making, At
  <1> QED BY <1>4, <1>5, <1>6 DEF ThreadInv

\* A failing export.
LEMMA FailureKeeps ==
    ASSUME HostInv, NEW t \in Thread, Step(t), call[t].at \in Inside, FailsWith(t),
           wrappers' = wrappers
    PROVE  ThreadInv(t)'
  <1>1. /\ CallShape(t) /\ Confinement(t) /\ OwnSlots(t) /\ OwnObject(t) /\ Making(t)
        /\ call'[t] = [call[t] EXCEPT !.at = "failed"] /\ lastError' = t
        /\ call[t].outcome = "none" /\ call[t].held # 1
        /\ \A s \in Thread \ {t} : call'[s] = call[s]
    <2>1. CallShape(t) /\ call'[t] = [call[t] EXCEPT !.at = "failed"]
      BY HostTypes DEF FailsWith, Goes
    <2>2. call[t].outcome = "none" /\ call[t].held # 1
      BY <2>1 DEF CallShape, Inside, At
    <2> QED BY <2>1, <2>2, HostTypes, StepsAreOwn DEF FailsWith
  <1>2. /\ call'[t].of = call[t].of /\ call'[t].kind = call[t].kind /\ call'[t].at = "failed"
        /\ call'[t].held = call[t].held /\ call'[t].reply = call[t].reply
        /\ call'[t].outcome = "none"
    BY <1>1, HostTypes
  <1>3. CallShape(t)' /\ Confinement(t)'
    BY <1>1, <1>2 DEF CallShape, Confinement, At, Past, Inside
  <1>4. OwnSlots(t)' /\ OwnObject(t)'
    BY <1>1, <1>2 DEF OwnSlots, OwnObject, Answering, At, Inside
  <1>5. Making(t)'
    BY <1>1, <1>2 DEF Making, At, Inside
  <1> QED BY <1>3, <1>4, <1>5 DEF ThreadInv

\* Constructors, getters and changes answer about their own wrapper's object.
LEMMA AnswerKeeps ==
    ASSUME HostInv, NEW t \in Thread, Make(t) \/ Read(t) \/ Change(t)
    PROVE  ThreadInv(t)'
  <1>0. Step(t) /\ At(t, "inside") /\ wrappers' = wrappers
    BY DEF Step, Make, Read, Change
  <1>1. CASE FailsWith(t)
    BY <1>0, <1>1, FailureKeeps DEF Inside, At
  <1>2. ASSUME NEW bytes \in 0..1, Returns(t, answer', bytes), call[t].kind # "make",
               HandleOf(call[t].of) \in Live, answer' = entries[HandleOf(call[t].of)]
        PROVE  ThreadInv(t)'
    <2>1. /\ CallShape(t) /\ Confinement(t) /\ OwnSlots(t) /\ OwnObject(t)
          /\ call'[t] = [call[t] EXCEPT !.at = "returned", !.got = answer', !.held = bytes]
      BY <1>2, HostTypes DEF Returns
    <2>2. /\ call'[t].of = call[t].of /\ call'[t].kind = call[t].kind
          /\ call'[t].at = "returned" /\ call'[t].reply = call[t].reply
          /\ call'[t].got = answer' /\ call'[t].outcome = "none"
      BY <1>0, <2>1, HostTypes DEF CallShape, At
    <2>3. answer' = call[t].of \/ wrappers[call[t].of].state = "disposed"
      BY <1>0, <1>2, <2>1, ReachesOwn DEF OwnObject, CallShape, Confinement, At, Inside
    <2>4. CallShape(t)' /\ Confinement(t)'
      BY <1>0, <1>2, <2>1, <2>2 DEF CallShape, Confinement, At, Past, Inside
    <2>5. OwnSlots(t)' /\ OwnObject(t)'
      BY <1>0, <1>2, <2>1, <2>2, <2>3 DEF OwnSlots, OwnObject, Answering, At
    <2>6. Making(t)'
      BY <1>2, <2>2 DEF Making, At
    <2> QED BY <2>4, <2>5, <2>6 DEF ThreadInv
  <1>3. CASE Make(t)
    <2>1. PICK f \in Handle : entries' = [entries EXCEPT ![f] = call[t].of] /\ next' = f
      BY <1>3 DEF Make, Store
    <2>2. /\ CallShape(t) /\ Confinement(t) /\ OwnSlots(t) /\ Making(t)
          /\ call'[t] = [call[t] EXCEPT !.at = "returned", !.got = f, !.held = 0]
          /\ \A s \in Thread \ {t} : call'[s] = call[s]
      BY <1>0, <1>3, <2>1, HostTypes, StepsAreOwn DEF Make, Returns
    <2>3. /\ call'[t].of = call[t].of /\ call'[t].kind = "make"
          /\ call'[t].at = "returned" /\ call'[t].reply = call[t].reply
          /\ call'[t].got = f /\ call'[t].outcome = "none" /\ call'[t].held = 0
      BY <1>0, <1>3, <2>2, HostTypes DEF Make, CallShape, At
    <2>4. f \in Live' /\ entries'[f] = call[t].of
      BY <1>0, <2>1, <2>2, HostTypes DEF Live, CallShape, At, Wrapper
    <2>5. CallShape(t)' /\ Confinement(t)'
      BY <1>0, <2>2, <2>3 DEF CallShape, Confinement, At, Past, Inside, Kind
    <2>6. OwnSlots(t)' /\ OwnObject(t)'
      BY <1>0, <2>2, <2>3 DEF OwnSlots, OwnObject, Answering, At
    <2>7. Making(t)'
      BY <1>0, <1>3, <2>2, <2>3, <2>4 DEF Making, Make, At
    <2> QED BY <2>5, <2>6, <2>7 DEF ThreadInv
  <1>4. CASE Read(t)
    <2>1. HandleOf(call[t].of) \in Handle \cup {0} /\ None \notin Handle
      BY <1>0, HostTypes DEF HandleOf, CallShape, At
    <2>2. answer' # None => HandleOf(call[t].of) \in Live
                            /\ answer' = entries[HandleOf(call[t].of)]
      BY <1>4, <2>1 DEF Read, With, Live
    <2> QED BY <1>1, <1>2, <1>4, <2>2 DEF Read
  <1>5. CASE Change(t)
    <2>1. answer' # None => HandleOf(call[t].of) \in Live
                            /\ answer' = entries[HandleOf(call[t].of)]
      BY <1>5 DEF Change, WithMut
    <2>2. 0 \in 0..1
      OBVIOUS
    <2> QED BY <1>1, <1>2, <1>5, <2>1, <2>2 DEF Change
  <1> QED BY <1>3, <1>4, <1>5

\* Networked exports: each exchange takes the response to its own request.
LEMMA NetworkKeeps ==
    ASSUME HostInv, NEW t \in Thread, OpenSession(t) \/ Fetch(t) \/ Take(t) \/ Complete(t)
    PROVE  ThreadInv(t)'
  <1>0. /\ Step(t) /\ wrappers' = wrappers /\ call[t].at \in Inside
        /\ CallShape(t) /\ Confinement(t) /\ OwnSlots(t) /\ OwnObject(t) /\ Making(t)
        /\ \A s \in Thread \ {t} : call'[s] = call[s]
        /\ call[t].of \in Wrapper
        /\ call[t].kind # "make" => wrappers[call[t].of].state # "none"
    <2>1. Step(t) /\ call[t].at \in Inside
      BY DEF Step, OpenSession, Fetch, Take, Complete, Inside, At
    <2> QED BY <2>1, HostTypes, StepsAreOwn
            DEF OpenSession, Fetch, Take, Complete, OwnObject, CallShape, At, Inside
  <1>1. CASE FailsWith(t)
    BY <1>0, <1>1, FailureKeeps
  <1>2. ASSUME ~FailsWith(t)
        PROVE  ThreadInv(t)'
    <2>1. /\ call[t].outcome = "none" /\ call[t].held = 0
          /\ call[t].kind = "network" /\ call[t].reply \in {None, t}
      BY <1>0, HostTypes DEF CallShape, OwnSlots, OpenSession, Fetch, Take, Complete, At, Inside
    <2>2. CASE OpenSession(t)
      <3>1. HandleOf(call[t].of) \in Handle \cup {0} /\ None \notin Handle
        BY <1>0, HostTypes DEF HandleOf
      <3>2. /\ HandleOf(call[t].of) \in Live /\ answer' = entries[HandleOf(call[t].of)]
            /\ call' = [call EXCEPT ![t].at = "exchange", ![t].got = answer']
        BY <1>2, <2>2, <3>1 DEF OpenSession, With, Live
      <3>3. answer' = call[t].of \/ wrappers[call[t].of].state = "disposed"
        BY <1>0, <2>1, <3>2, ReachesOwn DEF Confinement
      <3>4. /\ call'[t].at = "exchange" /\ call'[t].got = answer'
            /\ call'[t].of = call[t].of /\ call'[t].kind = "network"
            /\ call'[t].outcome = "none" /\ call'[t].held = 0
            /\ call'[t].reply = call[t].reply
        BY <2>1, <3>2, HostTypes
      <3>5. CallShape(t)' /\ Confinement(t)'
        BY <1>0, <3>4, StepsAreOwn DEF CallShape, Confinement, At, Past, Inside, Kind
      <3>6. OwnSlots(t)' /\ OwnObject(t)' /\ Making(t)'
        BY <1>0, <2>1, <3>3, <3>4 DEF OwnSlots, OwnObject, Answering, Making, At
      <3> QED BY <3>5, <3>6 DEF ThreadInv
    <2>3. CASE Fetch(t) \/ Take(t)
      <3>1. /\ call'[t].at \in {"exchange", "answered"} /\ call'[t].got = call[t].got
            /\ call'[t].of = call[t].of /\ call'[t].kind = "network"
            /\ call'[t].outcome = "none" /\ call'[t].held = 0
        BY <2>1, <2>3, HostTypes DEF Fetch, Take, Goes
      <3>2. call'[t].at = "answered" => pending' = t
        BY <2>3, HostTypes DEF Fetch, Take, Goes
      <3>3. call'[t].reply \in {None, t}
        BY <1>0, <2>1, <2>3, HostTypes DEF Fetch, Take, Goes, OwnSlots
      <3>4. CallShape(t)' /\ Confinement(t)'
        BY <1>0, <3>1, StepsAreOwn DEF CallShape, Confinement, At, Past, Inside, Kind
      <3>5. Answering(t)
        BY <2>1, <2>3 DEF Answering, Fetch, Take, At, Kind
      <3>6. OwnSlots(t)' /\ OwnObject(t)' /\ Making(t)'
        BY <1>0, <2>1, <3>1, <3>2, <3>3, <3>5
        DEF OwnSlots, OwnObject, Answering, Making, At, Inside
      <3> QED BY <3>4, <3>6 DEF ThreadInv
    <2>4. CASE Complete(t)
      <3>1. Returns(t, call[t].got, 1)
        BY <1>2, <2>4 DEF Complete
      <3>2. /\ call'[t].at = "returned" /\ call'[t].got = call[t].got
            /\ call'[t].of = call[t].of /\ call'[t].kind = "network"
            /\ call'[t].outcome = "none" /\ call'[t].reply = call[t].reply
        BY <2>1, <3>1, HostTypes DEF Returns
      <3>3. CallShape(t)' /\ Confinement(t)'
        BY <1>0, <3>2 DEF CallShape, Confinement, At, Past, Inside, Kind
      <3>4. Answering(t)
        BY <2>1, <2>4 DEF Answering, Complete, At, Kind
      <3>5. OwnSlots(t)' /\ OwnObject(t)' /\ Making(t)'
        BY <1>0, <2>1, <3>2, <3>4 DEF OwnSlots, OwnObject, Answering, Making, At, Inside
      <3> QED BY <3>3, <3>5 DEF ThreadInv
    <2> QED BY <2>2, <2>3, <2>4
  <1> QED BY <1>1, <1>2

\* Collecting the result or the error, and freeing the arguments.
LEMMA CollectionKeeps ==
    ASSUME HostInv, NEW t \in Thread,
           TakeHandle(t) \/ TakeResult(t) \/ ReadCode(t) \/ ReadMessage(t) \/ Unwind(t)
    PROVE  ThreadInv(t)'
  <1>0. /\ Step(t) /\ ~At(t, "idle") /\ disposed' = disposed
        /\ CallShape(t) /\ Confinement(t) /\ OwnSlots(t) /\ OwnObject(t) /\ Making(t)
        /\ call[t].of \in Wrapper /\ call[t].kind \in Kind
        /\ \A s \in Thread \ {t} : call'[s] = call[s]
        /\ lastError' = lastError /\ pending' = pending /\ vars' = vars /\ Live' = Live
    <2>1. Step(t) /\ ~At(t, "idle")
      BY DEF Step, TakeHandle, TakeResult, ReadCode, ReadMessage, Unwind, At
    <2> QED BY <2>1, HostTypes, StepsAreOwn
            DEF TakeHandle, TakeResult, ReadCode, ReadMessage, Unwind, CallShape, vars, Live,
                Handle
  <1>1. CASE Unwind(t)
    <2>1. call'[t] = NoCall
      BY <1>1, HostTypes DEF Unwind
    <2> QED BY <2>1 DEF NoCall, ThreadInv, CallShape, Confinement, OwnSlots, OwnObject, Making,
                        Answering, At, Past, Inside
  <1>2. CASE ReadCode(t) /\ ~disposed
    <2>1. /\ call'[t].at = "halfRead" /\ call'[t].code = t /\ call'[t].outcome = "none"
          /\ call'[t].of = call[t].of /\ call'[t].kind = call[t].kind
          /\ call'[t].held = call[t].held /\ call'[t].reply = call[t].reply
          /\ t = Owner /\ lastError = t /\ call[t].held # 1 /\ call[t].at = "failed"
          /\ wrappers' = wrappers
      BY <1>0, <1>2, HostTypes
      DEF ReadCode, CallShape, Confinement, OwnSlots, At, Past
    <2>2. CallShape(t)' /\ Confinement(t)' /\ OwnSlots(t)'
      BY <1>0, <2>1 DEF CallShape, Confinement, OwnSlots, At, Past, Inside
    <2>3. OwnObject(t)' /\ Making(t)'
      BY <1>0, <2>1 DEF OwnObject, Making, Answering, At
    <2> QED BY <2>2, <2>3 DEF ThreadInv
  <1>3. ASSUME call'[t].at = "unwinding", call'[t].outcome # "none", call'[t].held = 0,
               call'[t].of = call[t].of, call'[t].kind = call[t].kind,
               call'[t].reply = call[t].reply, call'[t].got = call[t].got,
               call'[t].outcome = "error" => call'[t].code = t /\ call'[t].message = t,
               call'[t].outcome = "value" => call[t].at = "returned",
               wrappers' = wrappers \/ call'[t].kind = "make"
        PROVE  ThreadInv(t)'
    <2>1. CallShape(t)' /\ Confinement(t)' /\ OwnSlots(t)'
      BY <1>0, <1>3 DEF CallShape, Confinement, OwnSlots, At, Past, Inside
    <2>2. OwnObject(t)' /\ Making(t)'
      BY <1>0, <1>3 DEF OwnObject, Making, Answering, At
    <2> QED BY <2>1, <2>2 DEF ThreadInv
  <1>4. CASE TakeHandle(t) \/ TakeResult(t)
    <2>1. /\ call[t].at = "returned" /\ call'[t].at = "unwinding"
          /\ call'[t].outcome \in {"value", "refused"}
          /\ call'[t].of = call[t].of /\ call'[t].kind = call[t].kind
          /\ call'[t].reply = call[t].reply /\ call'[t].got = call[t].got
      BY <1>4, HostTypes DEF TakeHandle, TakeResult, At
    <2>2. call'[t].held = 0
      BY <1>0, <1>4, HostTypes DEF TakeHandle, TakeResult, CallShape
    <2>3. wrappers' = wrappers \/ call'[t].kind = "make"
      BY <1>4, <2>1 DEF TakeHandle, TakeResult
    <2> QED BY <1>3, <2>1, <2>2, <2>3
  <1>5. CASE (ReadCode(t) /\ disposed) \/ ReadMessage(t)
    <2>1. /\ call[t].at \in {"failed", "halfRead"} /\ call'[t].at = "unwinding"
          /\ call'[t].outcome \in {"error", "refused"}
          /\ call'[t].of = call[t].of /\ call'[t].kind = call[t].kind
          /\ call'[t].reply = call[t].reply /\ call'[t].got = call[t].got
          /\ wrappers' = wrappers /\ call'[t].held = call[t].held
      BY <1>5, HostTypes DEF ReadCode, ReadMessage, Refused, At
    <2>2. call'[t].held = 0
      BY <1>0, <2>1, HostTypes DEF CallShape, At
    <2>3. call'[t].outcome = "error" => call'[t].code = t /\ call'[t].message = t
      BY <1>0, <1>5, HostTypes DEF ReadCode, ReadMessage, Refused, OwnSlots, At
    <2> QED BY <1>3, <2>1, <2>2, <2>3
  <1> QED BY <1>1, <1>2, <1>4, <1>5

\* Between the calls of a thread nothing of it is in the guest.
LEMMA BeginKeeps ==
    ASSUME HostInv, NEW t \in Thread, NEW kind \in Kind, NEW w \in Wrapper,
           NEW u \in Wrapper \cup {None}, Begin(t, kind, w, u), NEW s \in Thread
    PROVE  ThreadInv(s)'
  <1>1. /\ \A r \in Thread \ {t} : call'[r] = call[r]
        /\ call'[t].at = "arguments" /\ call'[t].kind = kind /\ call'[t].of = w
        /\ call'[t].reply = None /\ call'[t].outcome = "none" /\ call'[t].held = 0
        /\ call[t].at = "idle"
        /\ lastError' = Aged(lastError, t) /\ pending' = Aged(pending, t)
        /\ wrappers' = wrappers /\ disposed' = disposed /\ vars' = vars /\ Live' = Live
    BY HostTypes DEF Begin, NoCall, At, vars, Live, Handle
  <1>2. CallShape(s) /\ Confinement(s) /\ OwnSlots(s) /\ OwnObject(s) /\ Making(s)
    BY HostTypes
  <1>3. CallShape(s)' /\ Confinement(s)'
    BY <1>1, <1>2 DEF CallShape, Confinement, At, Past, Inside
  <1>4. OwnSlots(s)'
    BY <1>1, <1>2 DEF OwnSlots, Aged, At
  <1>5. OwnObject(s)'
    <2>1. CASE s = t
      BY <1>1, <2>1 DEF OwnObject, Answering, Begin, At
    <2>2. CASE s # t
      BY <1>1, <1>2, <2>2 DEF OwnObject, Answering, At
    <2> QED BY <2>1, <2>2
  <1>6. Making(s)'
    <2>1. CASE s = t
      BY <1>1, <2>1 DEF Making, Begin, Busy, At
    <2>2. CASE s # t
      <3>1. ~At(s, "idle") /\ call[s].kind = "make" => call[s].of # w
        BY DEF Begin
      <3> QED BY <1>1, <1>2, <2>2, <3>1 DEF Making, At, vars
    <2> QED BY <2>1, <2>2
  <1> QED BY <1>3, <1>4, <1>5, <1>6 DEF ThreadInv

\* Disposing of a wrapper frees the handle of its own object only.
LEMMA DisposalFrees ==
    ASSUME HostInv, NEW t \in Thread, NEW w \in Wrapper, DisposeWrapper(t, w), ~disposed,
           NEW h \in Live, entries[h] # w
    PROVE  h \in Live' /\ entries'[h] = entries[h]
  <1>1. entries \in [Handle -> Value \cup {None}] /\ h \in Handle
    BY HostTypes DEF Live
  <1>2. CASE UNCHANGED vars
    BY <1>1, <1>2 DEF vars, Live
  <1>3. CASE Remove(HandleOf(w))
    <2>1. HandleOf(w) \in Live /\ entries[HandleOf(w)] = w
      BY DEF DisposeWrapper, HostInv, WrapperOwnsObject
    <2> QED BY <1>1, <1>3, <2>1 DEF Remove, Live
  <1> QED BY <1>2, <1>3 DEF DisposeWrapper

\* Disposing of a wrapper disturbs no call.
LEMMA DisposalKeeps ==
    ASSUME HostInv, NEW t \in Thread, NEW w \in Wrapper, DisposeWrapper(t, w),
           NEW s \in Thread
    PROVE  ThreadInv(s)'
  <1>1. /\ call' = call /\ lastError' = lastError /\ pending' = pending /\ disposed' = disposed
        /\ wrappers[w].state = "live" /\ wrappers' = [wrappers EXCEPT ![w].state = "disposed"]
    BY DEF DisposeWrapper
  <1>2. CallShape(s) /\ Confinement(s) /\ OwnSlots(s) /\ OwnObject(s) /\ Making(s)
    BY HostTypes
  <1>3. CallShape(s)' /\ Confinement(s)' /\ OwnSlots(s)'
    BY <1>1, <1>2 DEF CallShape, Confinement, OwnSlots, At
  <1>4. \A v \in Wrapper : /\ v # w => wrappers'[v] = wrappers[v]
                           /\ wrappers'[w].state = "disposed"
    BY <1>1, HostTypes
  <1>5. OwnObject(s)'
    <2>1. ~At(s, "idle") => call[s].of \in Wrapper
      BY <1>2 DEF CallShape
    <2>2. Answering(s) => ~At(s, "idle")
      BY <1>2 DEF Answering, CallShape, At
    <2> QED BY <1>1, <1>2, <1>4, <2>1, <2>2 DEF OwnObject, Answering, At
  <1>6. Making(s)'
    <2> SUFFICES ASSUME ~At(s, "idle"), call[s].kind = "make" PROVE Making(s)'
      BY <1>1 DEF Making, At
    <2>1. call[s].of \in Wrapper /\ wrappers'[call[s].of].state = "live"
              => wrappers[call[s].of].state = "live"
      BY <1>2, <1>4 DEF CallShape
    <2>2. ~At(s, "unwinding") => call[s].of # w
      BY <1>1, <1>2 DEF Making
    <2>3. At(s, "returned") /\ ~disposed =>
            call[s].got \in Live' /\ entries'[call[s].got] = call[s].of
      BY <1>2, <2>2, DisposalFrees DEF Making, At
    <2> QED BY <1>1, <1>2, <2>1, <2>3 DEF Making, CallShape, At
  <1> QED BY <1>3, <1>5, <1>6 DEF ThreadInv

\* What is known of the threads' calls holds after every step of a host.
LEMMA ThreadsKeep ==
    ASSUME HostInv, [HostNext]_allVars, NEW s \in Thread
    PROVE  ThreadInv(s)'
  <1>1. ASSUME NEW t \in Thread, Step(t) PROVE ThreadInv(s)'
    <2>1. CASE s # t
      BY <1>1, <2>1, OthersKeep
    <2>2. CASE s = t
      <3>1. CASE Fail(t) \/ ArgumentUnknown(t)
        BY <1>1, <2>2, <3>1, FailureKeeps DEF Fail, ArgumentUnknown, Inside, At
      <3> QED BY <1>1, <2>2, <3>1, EntryKeeps, AnswerKeeps, NetworkKeeps, CollectionKeeps
              DEF Step
    <2> QED BY <2>1, <2>2
  <1>2. ASSUME NEW t \in Thread, DisposeRuntime(t) PROVE ThreadInv(s)'
    <2>1. ThreadInv(s) /\ disposed' /\ call[s].at \notin Inside
      BY <1>2 DEF HostInv, DisposeRuntime
    <2>2. call' = call /\ wrappers' = wrappers /\ lastError' = lastError /\ pending' = pending
      BY <1>2 DEF DisposeRuntime
    <2>3. Live' = Live /\ entries' = entries
      BY <1>2 DEF DisposeRuntime, vars, Live, Handle
    <2> QED BY <2>1, <2>2, <2>3 DEF ThreadInv, CallShape, Confinement, OwnSlots, OwnObject,
                               Making, Answering, At
  <1>3. CASE UNCHANGED allVars
    <2>1. ThreadInv(s) /\ call' = call /\ wrappers' = wrappers /\ lastError' = lastError
          /\ pending' = pending /\ disposed' = disposed
      BY <1>3 DEF allVars, hostVars, HostInv
    <2>2. Live' = Live /\ entries' = entries
      BY <1>3 DEF allVars, vars, Live, Handle
    <2> QED BY <2>1, <2>2 DEF ThreadInv, CallShape, Confinement, OwnSlots, OwnObject,
                              Making, Answering, At
  <1> QED BY <1>1, <1>2, <1>3, BeginKeeps, DisposalKeeps DEF HostNext

\* The handles of the wrappers in use stay the handles of their objects.
LEMMA WrappersKeep ==
    ASSUME HostInv, [HostNext]_allVars
    PROVE  WrapperOwnsObject'
  <1> SUFFICES ASSUME ~disposed', NEW v \in Wrapper, wrappers'[v].state = "live"
               PROVE  wrappers'[v].handle \in Live' /\ entries'[wrappers'[v].handle] = v
    BY DEF WrapperOwnsObject, HandleOf
  <1> DEFINE Owns == wrappers'[v].handle \in Live' /\ entries'[wrappers'[v].handle] = v
  <1>0. ~disposed => (wrappers[v].state = "live" =>
            wrappers[v].handle \in Live /\ entries[wrappers[v].handle] = v)
    BY DEF HostInv, WrapperOwnsObject, HandleOf
  <1>1. ASSUME NEW t \in Thread, Step(t) PROVE Owns
    <2>1. ~disposed
      BY <1>1, StepsAreOwn
    <2>2. CASE wrappers'[v] = wrappers[v]
      BY <1>0, <1>1, <2>1, <2>2, ExportsKeepEntries
    <2>3. CASE TakeHandle(t) /\ v = call[t].of
      <3>1. wrappers'[v].handle = call[t].got /\ Live' = Live /\ entries' = entries
        BY <2>3, HostTypes DEF TakeHandle, vars, Live, Handle
      <3>2. call[t].got \in Live /\ entries[call[t].got] = v
        BY <2>1, <2>3, HostTypes DEF TakeHandle, Making, At
      <3> QED BY <3>1, <3>2
    <2>4. CASE TakeHandle(t) /\ v # call[t].of
      BY <2>2, <2>4, HostTypes DEF TakeHandle
    <2> QED BY <1>1, <2>2, <2>3, <2>4, StepsAreOwn
  <1>2. ASSUME NEW t \in Thread, NEW kind, NEW w, NEW u, Begin(t, kind, w, u)
        PROVE  Owns
    BY <1>0, <1>2 DEF Begin, vars, Live, Handle
  <1>3. ASSUME NEW t \in Thread, NEW w \in Wrapper, DisposeWrapper(t, w) PROVE Owns
    <2>1. v # w /\ wrappers'[v] = wrappers[v] /\ ~disposed
      BY <1>3, HostTypes DEF DisposeWrapper
    <2> QED BY <1>0, <1>3, <2>1, DisposalFrees
  <1>4. ASSUME NEW t \in Thread, DisposeRuntime(t) PROVE Owns
    BY <1>4 DEF DisposeRuntime
  <1>5. CASE UNCHANGED allVars
    BY <1>0, <1>5 DEF allVars, hostVars, vars, Live, Handle
  <1> QED BY <1>1, <1>2, <1>3, <1>4, <1>5 DEF HostNext

\* What a step does to the buffers of the thread that takes it.
LEMMA StepsOnBuffers ==
    ASSUME HostInv, NEW t \in Thread, Step(t)
    PROVE  \/ /\ allocated' \in {allocated, allocated \cup {Stranded}}
              /\ call'[t].owned = call[t].owned /\ call'[t].held = call[t].held
           \/ /\ allocated' = allocated \cup {<<t, call[t].owned + 1>>} /\ ~disposed
              /\ call'[t].owned = call[t].owned + 1 /\ call'[t].held = call[t].held
           \/ /\ allocated' = allocated \cup {<<t, 0>>} /\ ~disposed
              /\ call'[t].owned = call[t].owned /\ call'[t].held = 1
           \/ /\ allocated' = IF disposed THEN {} ELSE allocated \ {<<t, 0>>}
              /\ call'[t].owned = call[t].owned /\ call'[t].held = 0
           \/ /\ allocated' = IF disposed THEN {} ELSE allocated \ Arguments(t)
              /\ call'[t].owned = 0 /\ call'[t].held = 0 /\ call[t].held = 0
  <1> DEFINE c == call[t]
             d == call'[t]
             Kept == /\ allocated' \in {allocated, allocated \cup {Stranded}}
                     /\ d.owned = c.owned /\ d.held = c.held
             Registered == /\ allocated' = allocated \cup {<<t, c.owned + 1>>} /\ ~disposed
                           /\ d.owned = c.owned + 1 /\ d.held = c.held
             Answered == /\ allocated' = allocated \cup {<<t, 0>>} /\ ~disposed
                         /\ d.owned = c.owned /\ d.held = 1
  <1>1. /\ CallShape(t) /\ Confinement(t) /\ c.held \in 0..1 /\ t \in DOMAIN call
    BY HostTypes
  <1>2. CASE Refused(t) /\ allocated' \in {allocated, allocated \cup {Stranded}}
    BY <1>2, HostTypes DEF Refused
  <1>3. ASSUME NEW place, Goes(t, place), UNCHANGED allocated PROVE Kept
    BY <1>3, HostTypes DEF Goes
  <1>4. ASSUME NEW answered, NEW bytes \in 0..1, Returns(t, answered, bytes), c.at \in Inside
        PROVE  Kept \/ Answered
    <2>1. c.held = 0 /\ ~disposed
      BY <1>1, <1>4 DEF CallShape, Confinement, Inside, At
    <2> QED BY <1>4, <2>1, HostTypes DEF Returns
  <1>5. CASE WriteText(t) \/ WriteBytes(t)
    <2>1. CASE Written(t) /\ ~disposed
      BY <2>1, HostTypes DEF Written
    <2>2. CASE CopyThrows(t) /\ ~disposed
      BY <2>2, HostTypes DEF CopyThrows
    <2> QED BY <1>2, <1>5, <2>1, <2>2
            DEF WriteText, WriteBytes, Usable, CopyThrowsUnregistered, NotAllocated
  <1>6. CASE Invoke(t) \/ Fail(t) \/ ArgumentUnknown(t) \/ Fetch(t)
    BY <1>2, <1>3, <1>6 DEF Invoke, Fail, ArgumentUnknown, Fetch, FailsWith
  <1>7. CASE Make(t) \/ Read(t) \/ Change(t)
    <2>1. c.at \in Inside /\ 0 \in 0..1
      BY <1>7 DEF Make, Read, Change, Inside, At
    <2> HIDE DEF Kept, Answered
    <2>2. Kept \/ Answered
      BY <1>3, <1>4, <1>7, <2>1 DEF Make, Read, Change, FailsWith
    <2> QED BY <2>2 DEF Kept, Answered
  <1>8. CASE OpenSession(t) \/ Take(t)
    <2>1. CASE \E place : Goes(t, place)
      BY <1>3, <1>8, <2>1 DEF OpenSession, Take
    <2>2. CASE ~\E place : Goes(t, place)
      BY <1>8, <2>2, HostTypes DEF OpenSession, Take, FailsWith
    <2> QED BY <2>1, <2>2
  <1>9. CASE Complete(t)
    <2>1. c.at \in Inside /\ 1 \in 0..1
      BY <1>9 DEF Complete, Inside, At
    <2> HIDE DEF Kept, Answered
    <2>2. Kept \/ Answered
      BY <1>3, <1>4, <1>9, <2>1 DEF Complete, FailsWith
    <2> QED BY <2>2 DEF Kept, Answered
  <1>10. CASE TakeHandle(t) \/ ReadCode(t) \/ ReadMessage(t)
    BY <1>10, HostTypes DEF TakeHandle, ReadCode, ReadMessage, Refused
  <1>11. CASE TakeResult(t)
    BY <1>11, HostTypes DEF TakeResult
  <1>12. CASE Unwind(t)
    <2>1. d = NoCall /\ c.held # 1
      BY <1>1, <1>12, HostTypes DEF Unwind, CallShape, At
    <2> QED BY <1>1, <1>12, <2>1 DEF Unwind, NoCall
  <1> QED BY <1>5, <1>6, <1>7, <1>8, <1>9, <1>10, <1>11, <1>12 DEF Step

\* The buffers of the other threads are left alone.
LEMMA OthersKeepBuffers ==
    ASSUME HostInv, NEW t \in Thread, Step(t), NEW s \in Thread \ {t}
    PROVE  HeldFor(s)' = HeldFor(s) /\ ToFree(s)' = ToFree(s)
  <1>1. call'[s] = call[s] /\ None \notin Thread
    BY HostTypes, StepsAreOwn
  <1>2. disposed => HeldFor(s) = {}
    BY DEF HostInv, BuffersOwned
  <1>3. \A b : b[1] = s => b # Stranded /\ b # <<t, 0>> /\ b # <<t, call[t].owned + 1>>
                           /\ b \notin Arguments(t)
    BY <1>1 DEF Stranded, Arguments
  <1>4. HeldFor(s)' = HeldFor(s)
    BY <1>2, <1>3, StepsOnBuffers DEF HeldFor
  <1>5. ToFree(s)' = ToFree(s)
    BY <1>1 DEF ToFree, Arguments
  <1> QED BY <1>4, <1>5

\* The guest holds for a call what the call is going to free.
LEMMA StepsKeepBuffers ==
    ASSUME HostInv, NEW t \in Thread, Step(t)
    PROVE  HeldFor(t)' = IF disposed' THEN {} ELSE ToFree(t)'
  <1> DEFINE c == call[t]
             d == call'[t]
             Args(n) == {t} \X (1..n)
             Result(held) == IF held = 1 THEN {<<t, 0>>} ELSE {}
  <1>1. /\ disposed' = disposed /\ t # None /\ c.owned \in Nat /\ c.held \in 0..1
    BY HostTypes, StepsAreOwn
  <1>2. HeldFor(t) = IF disposed THEN {} ELSE Args(c.owned) \cup Result(c.held)
    BY DEF HostInv, BuffersOwned, ToFree, Arguments
  <1> SUFFICES HeldFor(t)' = IF disposed THEN {} ELSE Args(d.owned) \cup Result(d.held)
    BY <1>1 DEF ToFree, Arguments
  <1>3. CASE /\ allocated' \in {allocated, allocated \cup {Stranded}}
             /\ d.owned = c.owned /\ d.held = c.held
    <2>1. HeldFor(t)' = HeldFor(t)
      BY <1>1, <1>3 DEF HeldFor, Stranded
    <2> QED BY <1>2, <1>3, <2>1
  <1>4. CASE /\ allocated' = allocated \cup {<<t, c.owned + 1>>} /\ ~disposed
             /\ d.owned = c.owned + 1 /\ d.held = c.held
    <2>1. HeldFor(t)' = HeldFor(t) \cup {<<t, c.owned + 1>>}
      BY <1>4 DEF HeldFor
    <2>2. 1..(c.owned + 1) = (1..c.owned) \cup {c.owned + 1}
      BY <1>1
    <2>3. Args(d.owned) = Args(c.owned) \cup {<<t, c.owned + 1>>}
      BY <1>4, <2>2
    <2> QED BY <1>2, <1>4, <2>1, <2>3
  <1>5. CASE /\ allocated' = allocated \cup {<<t, 0>>} /\ ~disposed
             /\ d.owned = c.owned /\ d.held = 1
    <2>1. HeldFor(t)' = HeldFor(t) \cup {<<t, 0>>}
      BY <1>5 DEF HeldFor
    <2> QED BY <1>2, <1>5, <2>1
  <1>6. CASE /\ allocated' = IF disposed THEN {} ELSE allocated \ {<<t, 0>>}
             /\ d.owned = c.owned /\ d.held = 0
    <2>1. HeldFor(t)' = IF disposed THEN {} ELSE HeldFor(t) \ {<<t, 0>>}
      BY <1>6 DEF HeldFor
    <2>2. <<t, 0>> \notin Args(c.owned)
      BY <1>1
    <2>3. Result(c.held) \subseteq {<<t, 0>>} /\ Result(d.held) = {} /\ d.owned = c.owned
      BY <1>6
    <2> HIDE DEF Args, Result
    <2> QED BY <1>2, <2>1, <2>2, <2>3
  <1>7. CASE /\ allocated' = IF disposed THEN {} ELSE allocated \ Arguments(t)
             /\ d.owned = 0 /\ d.held = 0 /\ c.held = 0
    <2>1. HeldFor(t)' = IF disposed THEN {} ELSE HeldFor(t) \ Args(c.owned)
      BY <1>7 DEF HeldFor, Arguments
    <2>2. Args(d.owned) = {} /\ Result(c.held) = {} /\ Result(d.held) = {}
      BY <1>7
    <2> HIDE DEF Args, Result
    <2> QED BY <1>2, <2>1, <2>2
  <1> HIDE DEF Args, Result
  <1> QED BY <1>3, <1>4, <1>5, <1>6, <1>7, StepsOnBuffers

\* Every step keeps the guest's buffers and the host's lists together.
LEMMA BuffersKeep ==
    ASSUME HostInv, [HostNext]_allVars
    PROVE  BuffersOwned'
  <1> SUFFICES ASSUME NEW s \in Thread
               PROVE  HeldFor(s)' = IF disposed' THEN {} ELSE ToFree(s)'
    BY DEF BuffersOwned
  <1>0. HeldFor(s) = IF disposed THEN {} ELSE ToFree(s)
    BY DEF HostInv, BuffersOwned
  <1>1. ASSUME NEW t \in Thread, Step(t)
        PROVE  HeldFor(s)' = IF disposed' THEN {} ELSE ToFree(s)'
    <2>1. CASE s = t
      BY <1>1, <2>1, StepsKeepBuffers
    <2>2. CASE s # t
      BY <1>0, <1>1, <2>2, OthersKeepBuffers, StepsAreOwn
    <2> QED BY <2>1, <2>2
  <1>2. ASSUME allocated' = allocated, disposed' = disposed,
               call'[s].owned = call[s].owned, call'[s].held = call[s].held
        PROVE  HeldFor(s)' = IF disposed' THEN {} ELSE ToFree(s)'
    BY <1>0, <1>2 DEF HeldFor, ToFree, Arguments
  <1>3. ASSUME NEW t \in Thread, NEW kind, NEW w, NEW u, Begin(t, kind, w, u)
        PROVE  HeldFor(s)' = IF disposed' THEN {} ELSE ToFree(s)'
    <2>1. call[t] = NoCall /\ allocated' = allocated /\ disposed' = disposed
      BY <1>3, HostTypes DEF Begin, CallShape
    <2>2. call'[s].owned = call[s].owned /\ call'[s].held = call[s].held
      BY <1>3, <2>1, HostTypes DEF Begin, NoCall
    <2> QED BY <1>2, <2>1, <2>2
  <1>4. ASSUME NEW t \in Thread, NEW w \in Wrapper, DisposeWrapper(t, w)
        PROVE  HeldFor(s)' = IF disposed' THEN {} ELSE ToFree(s)'
    BY <1>2, <1>4 DEF DisposeWrapper
  <1>5. ASSUME NEW t \in Thread, DisposeRuntime(t)
        PROVE  HeldFor(s)' = IF disposed' THEN {} ELSE ToFree(s)'
    BY <1>5 DEF DisposeRuntime, HeldFor
  <1>6. CASE UNCHANGED allVars
    BY <1>2, <1>6 DEF allVars, hostVars
  <1> QED BY <1>1, <1>3, <1>4, <1>5, <1>6 DEF HostNext

\* Buffers are of threads, or stranded.
LEMMA BuffersTyped ==
    ASSUME HostInv, [HostNext]_allVars
    PROVE  allocated' \subseteq (Thread \X Nat) \cup {Stranded}
  <1> DEFINE Buffer == (Thread \X Nat) \cup {Stranded}
  <1>0. allocated \subseteq Buffer
    BY DEF HostInv, HostTypeOK
  <1>1. ASSUME NEW t \in Thread, Step(t) PROVE allocated' \subseteq Buffer
    <2>1. call[t].owned + 1 \in Nat /\ 0 \in Nat
      BY HostTypes
    <2>2. <<t, call[t].owned + 1>> \in Buffer /\ <<t, 0>> \in Buffer /\ Stranded \in Buffer
      BY <2>1
    <2> HIDE DEF Buffer
    <2> QED BY <1>0, <1>1, <2>2, StepsOnBuffers
  <1>2. ASSUME NEW t, NEW kind, NEW w, NEW u, Begin(t, kind, w, u)
        PROVE  allocated' \subseteq Buffer
    BY <1>0, <1>2 DEF Begin
  <1>3. ASSUME NEW t, NEW w, DisposeWrapper(t, w) PROVE allocated' \subseteq Buffer
    BY <1>0, <1>3 DEF DisposeWrapper
  <1>4. ASSUME NEW t, DisposeRuntime(t) PROVE allocated' \subseteq Buffer
    BY <1>4 DEF DisposeRuntime
  <1>5. ASSUME UNCHANGED allVars PROVE allocated' \subseteq Buffer
    BY <1>0, <1>5 DEF allVars, hostVars
  <1>6. allocated' \subseteq Buffer
    <2> HIDE DEF Buffer
    <2> QED BY <1>1, <1>2, <1>3, <1>4, <1>5 DEF HostNext
  <1> QED BY <1>6

\* Types.
LEMMA HostTypesKept ==
    ASSUME HostInv, [HostNext]_allVars
    PROVE  HostTypeOK'
  <1> DEFINE CallType == [at : Place, kind : Kind \cup {"none"},
                          of : Wrapper \cup {None}, uses : Wrapper \cup {None},
                          left : Nat, owned : Nat, held : 0..1,
                          got : Wrapper \cup Handle \cup {None}, reply : Tag,
                          outcome : {"none", "value", "refused", "error"},
                          code : Tag, message : Tag]
             WrapperType == [handle : Handle \cup {0}, state : {"none", "live", "disposed"}]
             Others == /\ wrappers' \in [Wrapper -> WrapperType]
                       /\ lastError' \in Tag /\ pending' \in Tag /\ disposed' \in BOOLEAN
  <1>0. /\ call \in [Thread -> CallType] /\ wrappers \in [Wrapper -> WrapperType]
        /\ lastError \in Tag /\ pending \in Tag /\ disposed \in BOOLEAN
        /\ None \in Tag /\ "earlier" \in Tag
        /\ \A t \in Thread : t \in Tag
        /\ entries \in [Handle -> Value \cup {None}]
        /\ {"idle", "arguments", "returned", "failed", "halfRead", "unwinding", "inside",
            "exchange", "answered"} \subseteq Place
    BY DEF HostInv, HostTypeOK, Tag, Place, Inside, IInv, TypeOK
  <1>1. ASSUME NEW t \in Thread, Step(t) PROVE call' \in [Thread -> CallType] /\ Others
    <2> HIDE DEF Others
    <2>0. ASSUME wrappers' = wrappers, lastError' \in {lastError, t},
                 pending' \in {pending, t, None}, disposed' = disposed
          PROVE  Others
      BY <1>0, <2>0 DEF Others
    <2>1. CASE WriteText(t) \/ WriteBytes(t) \/ Invoke(t)
      <3>1. Others
        BY <2>0, <2>1 DEF WriteText, WriteBytes, Invoke
      <3>2. CASE Refused(t)
        <4> DEFINE d == [call[t] EXCEPT !.at = "unwinding", !.outcome = "refused"]
        <4>1. call[t] \in CallType
          BY <1>0
        <4>2. d \in CallType
          BY <1>0, <4>1
        <4>3. call' = [call EXCEPT ![t] = d]
          BY <1>0, <3>2 DEF Refused
        <4> QED BY <1>0, <3>1, <4>2, <4>3
      <3>3. CASE Written(t) /\ call[t].left > 0
        <4> DEFINE d == [call[t] EXCEPT !.left = @ - 1, !.owned = @ + 1]
        <4>1. call[t] \in CallType /\ call[t].left - 1 \in Nat /\ call[t].owned + 1 \in Nat
          BY <1>0, <3>3
        <4>2. d \in CallType
          BY <4>1
        <4>3. call' = [call EXCEPT ![t] = d]
          BY <1>0, <3>3 DEF Written
        <4> QED BY <1>0, <3>1, <4>2, <4>3
      <3>4. CASE Goes(t, "inside")
        BY <1>0, <3>1, <3>4 DEF Goes
      <3>5. CASE CopyThrows(t)
        <4> DEFINE d == [call[t] EXCEPT !.at = "unwinding", !.outcome = "refused",
                                        !.owned = @ + 1]
        <4>1. call[t] \in CallType /\ call[t].owned + 1 \in Nat
          BY <1>0
        <4>2. d \in CallType
          BY <1>0, <4>1
        <4>3. call' = [call EXCEPT ![t] = d]
          BY <1>0, <3>5 DEF CopyThrows
        <4> QED BY <1>0, <3>1, <4>2, <4>3
      <3> QED BY <2>1, <3>2, <3>3, <3>4, <3>5
              DEF WriteText, WriteBytes, Invoke, CopyThrowsUnregistered, NotAllocated
    <2>2. ASSUME FailsWith(t), wrappers' = wrappers, pending' = pending, disposed' = disposed
          PROVE  call' \in [Thread -> CallType] /\ Others
      BY <1>0, <2>0, <2>2 DEF FailsWith, Goes
    <2>3. ASSUME NEW answered \in Wrapper \cup Handle \cup {None}, NEW bytes \in 0..1,
                 Returns(t, answered, bytes),
                 UNCHANGED <<wrappers, lastError, pending, disposed>>
          PROVE  call' \in [Thread -> CallType] /\ Others
      <3> DEFINE d == [call[t] EXCEPT !.at = "returned", !.got = answered, !.held = bytes]
      <3>1. call[t] \in CallType
        BY <1>0
      <3>2. d \in CallType
        BY <1>0, <3>1
      <3>3. call' = [call EXCEPT ![t] = d]
        BY <1>0, <2>3 DEF Returns
      <3> QED BY <1>0, <2>0, <2>3, <3>2, <3>3
    <2>4. CASE Fail(t) \/ ArgumentUnknown(t)
      BY <2>2, <2>4 DEF Fail, ArgumentUnknown
    <2>5. CASE Make(t)
      <3>1. next' \in Handle /\ 0 \in 0..1
        BY <2>5 DEF Make, Store
      <3> QED BY <2>3, <2>5, <3>1 DEF Make
    <2>6. CASE Read(t) \/ Change(t)
      <3>1. answer' \in Wrapper \cup Handle \cup {None}
        <4>1. CASE Read(t)
          BY <1>0, <4>1 DEF Read, With, Wrapper
        <4>2. CASE Change(t)
          <5>1. \/ answer' = None
                \/ /\ HandleOf(call[t].of) \in Handle
                   /\ answer' = entries[HandleOf(call[t].of)]
            BY <4>2 DEF Change, WithMut, Live
          <5> QED BY <1>0, <5>1 DEF Wrapper
        <4> QED BY <2>6, <4>1, <4>2
      <3>2. 0 \in 0..1
        OBVIOUS
      <3> QED BY <2>2, <2>3, <2>6, <3>1, <3>2 DEF Read, Change
    <2>7. CASE OpenSession(t)
      <3>1. answer' \in Wrapper \cup Handle \cup {None}
        BY <1>0, <2>7 DEF OpenSession, With, Wrapper
      <3>2. CASE FailsWith(t)
        BY <2>2, <2>7, <3>2 DEF OpenSession
      <3>3. CASE call' = [call EXCEPT ![t].at = "exchange", ![t].got = answer']
                 /\ UNCHANGED lastError
        <4> DEFINE d == [call[t] EXCEPT !.at = "exchange", !.got = answer']
        <4>1. call[t] \in CallType
          BY <1>0
        <4>2. d \in CallType
          BY <1>0, <3>1, <4>1
        <4>3. call' = [call EXCEPT ![t] = d]
          BY <1>0, <3>3
        <4> QED BY <1>0, <2>0, <2>7, <3>3, <4>2, <4>3 DEF OpenSession
      <3> QED BY <2>7, <3>2, <3>3 DEF OpenSession
    <2>8. CASE Fetch(t) \/ Take(t)
      <3>1. Others
        BY <2>0, <2>8 DEF Fetch, Take
      <3>2. CASE Fetch(t)
        BY <1>0, <3>1, <3>2 DEF Fetch, Goes
      <3>3. CASE Take(t)
        <4> DEFINE d == [call[t] EXCEPT !.at = "exchange", !.reply = pending]
        <4>1. call[t] \in CallType
          BY <1>0
        <4>2. d \in CallType
          BY <1>0, <4>1
        <4>3. call' = [call EXCEPT ![t] = d]
          BY <1>0, <3>3 DEF Take
        <4> QED BY <1>0, <3>1, <4>2, <4>3
      <3> QED BY <2>8, <3>2, <3>3
    <2>9. CASE Complete(t)
      <3>1. call[t].got \in Wrapper \cup Handle \cup {None} /\ 1 \in 0..1
        BY <1>0
      <3> QED BY <2>2, <2>3, <2>9, <3>1 DEF Complete
    <2>10. CASE TakeHandle(t)
      <3>1. call[t].got \in Handle
        BY <2>10, HostTypes DEF TakeHandle, Making, At
      <3>2. wrappers' \in [Wrapper -> WrapperType]
        BY <1>0, <2>10, <3>1 DEF TakeHandle
      <3>3. Others
        BY <1>0, <2>10, <3>2 DEF TakeHandle, Others
      <3> DEFINE d == [call[t] EXCEPT !.at = "unwinding", !.outcome = "value"]
      <3>4. d \in CallType
        <4>1. call[t] \in CallType /\ "unwinding" \in Place
          BY <1>0
        <4> QED BY <4>1
      <3>5. call' = [call EXCEPT ![t] = d]
        BY <1>0, <2>10 DEF TakeHandle
      <3> QED BY <1>0, <3>3, <3>4, <3>5
    <2>11. CASE TakeResult(t)
      <3> PICK o \in {"value", "refused"} :
            call' = [call EXCEPT ![t].at = "unwinding", ![t].held = 0, ![t].outcome = o]
        BY <2>11 DEF TakeResult
      <3> DEFINE d == [call[t] EXCEPT !.at = "unwinding", !.held = 0, !.outcome = o]
      <3>1. call[t] \in CallType /\ o \in {"none", "value", "refused", "error"} /\ 0 \in 0..1
        BY <1>0
      <3>2. d \in CallType
        BY <1>0, <3>1
      <3>3. call' = [call EXCEPT ![t] = d]
        BY <1>0
      <3>4. Others
        BY <2>0, <2>11 DEF TakeResult
      <3> QED BY <1>0, <3>2, <3>3, <3>4
    <2>12. CASE ReadCode(t) \/ ReadMessage(t)
      <3>1. Others
        BY <2>0, <2>12 DEF ReadCode, ReadMessage
      <3>2. CASE Refused(t)
        <4> DEFINE d == [call[t] EXCEPT !.at = "unwinding", !.outcome = "refused"]
        <4>1. call[t] \in CallType
          BY <1>0
        <4>2. d \in CallType
          BY <1>0, <4>1
        <4>3. call' = [call EXCEPT ![t] = d]
          BY <1>0, <3>2 DEF Refused
        <4> QED BY <1>0, <3>1, <4>2, <4>3
      <3>3. CASE call' = [call EXCEPT ![t].at = "halfRead", ![t].code = lastError]
        <4> DEFINE d == [call[t] EXCEPT !.at = "halfRead", !.code = lastError]
        <4>1. call[t] \in CallType
          BY <1>0
        <4>2. d \in CallType
          BY <1>0, <4>1
        <4>3. call' = [call EXCEPT ![t] = d]
          BY <1>0, <3>3
        <4> QED BY <1>0, <3>1, <4>2, <4>3
      <3>4. CASE call' = [call EXCEPT ![t].at = "unwinding", ![t].outcome = "error",
                                      ![t].message = lastError]
        <4> DEFINE d == [call[t] EXCEPT !.at = "unwinding", !.outcome = "error",
                                        !.message = lastError]
        <4>1. call[t] \in CallType
          BY <1>0
        <4>2. d \in CallType
          BY <1>0, <4>1
        <4>3. call' = [call EXCEPT ![t] = d]
          BY <1>0, <3>4
        <4> QED BY <1>0, <3>1, <4>2, <4>3
      <3> QED BY <2>12, <3>2, <3>3, <3>4 DEF ReadCode, ReadMessage
    <2>13. CASE Unwind(t)
      <3>1. NoCall \in CallType
        BY <1>0 DEF NoCall
      <3>2. Others
        BY <2>0, <2>13 DEF Unwind
      <3> QED BY <1>0, <2>13, <3>1, <3>2 DEF Unwind
    <2> QED BY <1>1, <2>1, <2>4, <2>5, <2>6, <2>7, <2>8, <2>9, <2>10, <2>11, <2>12, <2>13
            DEF Step
  <1>2. ASSUME NEW t \in Thread, NEW kind \in Kind, NEW w \in Wrapper,
               NEW u \in Wrapper \cup {None}, Begin(t, kind, w, u)
        PROVE  call' \in [Thread -> CallType] /\ Others
    <2>1. NoCall \in CallType
      BY <1>0 DEF NoCall
    <2>2. PICK n \in 0..MaxArguments :
            call' = [call EXCEPT ![t] = [NoCall EXCEPT !.at = "arguments", !.kind = kind,
                                                       !.of = w, !.uses = u, !.left = n]]
      BY <1>2 DEF Begin
    <2>3. n \in Nat
      BY ThreadAssumption
    <2>4. Others
      BY <1>0, <1>2 DEF Begin, Aged
    <2> QED BY <1>0, <2>1, <2>2, <2>3, <2>4
  <1>3. ASSUME NEW t \in Thread, NEW w \in Wrapper, DisposeWrapper(t, w)
        PROVE  call' \in [Thread -> CallType] /\ Others
    BY <1>0, <1>3 DEF DisposeWrapper
  <1>4. ASSUME NEW t \in Thread, DisposeRuntime(t)
        PROVE  call' \in [Thread -> CallType] /\ Others
    BY <1>0, <1>4 DEF DisposeRuntime
  <1>5. ASSUME UNCHANGED allVars PROVE call' \in [Thread -> CallType] /\ Others
    BY <1>0, <1>5 DEF allVars, hostVars
  <1>6. call' \in [Thread -> CallType] /\ Others
    <2> HIDE DEF Others, CallType
    <2> QED BY <1>1, <1>2, <1>3, <1>4, <1>5 DEF HostNext
  <1> QED BY <1>6, BuffersTyped DEF HostTypeOK

LEMMA HostStarts ==
    ASSUME HostInit
    PROVE  HostInv
  <1>1. IInv
    BY RegistryStarts DEF HostInit
  <1>2. HostTypeOK
    <2>1. /\ NoCall.at \in Place /\ NoCall.kind \in Kind \cup {"none"} /\ None \in Tag
          /\ NoCall \in [at : Place, kind : Kind \cup {"none"},
                         of : Wrapper \cup {None}, uses : Wrapper \cup {None},
                         left : Nat, owned : Nat, held : 0..1,
                         got : Wrapper \cup Handle \cup {None}, reply : Tag,
                         outcome : {"none", "value", "refused", "error"},
                         code : Tag, message : Tag]
      BY DEF NoCall, Place, Tag
    <2> QED BY <2>1 DEF HostInit, HostTypeOK
  <1>3. \A t \in Thread : ThreadInv(t)
    BY DEF HostInit, NoCall, ThreadInv, CallShape, Confinement, OwnSlots, OwnObject, Making,
           Answering, At, Past, Inside
  <1>4. WrapperOwnsObject
    BY DEF HostInit, WrapperOwnsObject
  <1>5. BuffersOwned
    BY DEF HostInit, NoCall, BuffersOwned, HeldFor, ToFree, Arguments
  <1> QED BY <1>1, <1>2, <1>3, <1>4, <1>5 DEF HostInv

\* The inductive invariant of the host over the module: only the owner's call
\* is past Invoke, so the slots threads share hold what belongs to it; a
\* wrapper in use keeps the handle of its own object; and the guest holds for
\* each call the buffers the call is going to free.
THEOREM HostInvariance == HostSpec => []HostInv
  <1>1. HostInit => HostInv
    BY HostStarts
  <1>2. HostInv /\ [HostNext]_allVars => HostInv'
    <2> SUFFICES ASSUME HostInv, [HostNext]_allVars PROVE HostInv'
      OBVIOUS
    <2>1. IInv'
      BY HostUsesRegistry, RegistryKeeps DEF HostInv
    <2>2. \A t \in Thread : ThreadInv(t)'
      BY ThreadsKeep
    <2> QED BY <2>1, <2>2, HostTypesKept, WrappersKeep, BuffersKeep DEF HostInv
  <1> QED BY <1>1, <1>2, PTL DEF HostSpec

\* Whatever the host does with its wrappers, threads and failures, a wrapper that
\* outlived its object meets an unknown handle, not another object, until every
\* other handle has been in use.
THEOREM HostReusesLast == HostSpec => ReusedLast
  <1>1. HostInv /\ [HostNext]_allVars =>
          [answer' \in Handle /\ metSince[answer'] # {} =>
             metSince[answer'] \cup Live \cup {answer'} = Handle]_vars
    BY HostUsesRegistry, ReuseMetAll DEF HostInv
  <1> QED BY <1>1, HostInvariance, PTL DEF HostSpec, ReusedLast

\* A call returns what belongs to it: the object of its wrapper, the responses
\* to its own requests, the code and the message of its own failure.
THEOREM OwnAnswers == HostSpec => []ReturnsOwn
  <1>1. HostInv => ReturnsOwn
    <2> SUFFICES ASSUME HostInv, NEW t \in Thread
                 PROVE  /\ call[t].outcome = "value" /\ call[t].kind # "make" =>
                             \/ wrappers[call[t].of].state = "disposed"
                             \/ call[t].got = call[t].of
                        /\ call[t].outcome = "value" => call[t].reply \in {None, t}
                        /\ call[t].outcome = "error" => call[t].code = t /\ call[t].message = t
      BY DEF ReturnsOwn
    <2>1. CallShape(t) /\ OwnSlots(t) /\ OwnObject(t)
      BY HostTypes
    <2>2. call[t].outcome = "value" => call[t].kind \in Kind
      BY <2>1 DEF CallShape, At
    <2> QED BY <2>1, <2>2 DEF OwnSlots, OwnObject, Answering
  <1> QED BY <1>1, HostInvariance, PTL

\* Whatever calls are refused, throw or fail half-way: what the lists of the
\* host name is what the guest holds for it, so each buffer is freed, once...
THEOREM BuffersFreed == HostSpec => []BuffersOwned
  <1>1. HostInv => BuffersOwned
    BY DEF HostInv
  <1> QED BY <1>1, HostInvariance, PTL

\* ...and between calls the guest holds nothing, but for buffers into which
\* WriteBytes failed to copy.
THEOREM OnlyFailedCopiesLeak ==
    HostSpec => []((\A t \in Thread : At(t, "idle")) => allocated \subseteq {Stranded})
  <1>1. HostInv => ((\A t \in Thread : At(t, "idle")) => allocated \subseteq {Stranded})
    <2> SUFFICES ASSUME HostInv, \A t \in Thread : At(t, "idle"), NEW b \in allocated,
                        b # Stranded
                 PROVE  FALSE
      OBVIOUS
    <2>1. b[1] \in Thread
      BY DEF HostInv, HostTypeOK
    <2>2. call[b[1]] = NoCall
      BY <2>1, HostTypes DEF CallShape
    <2>3. b \in HeldFor(b[1])
      BY DEF HeldFor
    <2>4. ToFree(b[1]) = {}
      BY <2>2 DEF NoCall, ToFree, Arguments
    <2> QED BY <2>1, <2>3, <2>4 DEF HostInv, BuffersOwned
  <1> QED BY <1>1, HostInvariance, PTL

=============================================================================
