------------------------------ MODULE WasmHost ------------------------------
(***************************************************************************)
(* The C# host (WasmRuntime and the wrappers over it) and the preview 1    *)
(* core module it drives (p1/*.rs): arguments are copied into guest        *)
(* buffers, an export works on an object of a handle table and answers     *)
(* with a handle or with 0 and a last error, networked exports fetch       *)
(* through the host, and the host collects and frees what it was given.    *)
(*                                                                         *)
(* Threads run these steps interleaved.  One table stands for all: the     *)
(* value stored under a handle is the wrapper whose object it is, so that  *)
(* objects can be told apart.  Threads tag responses and errors.           *)
(***************************************************************************)
EXTENDS HandleRegistry

CONSTANTS
    Thread,
    Owner,          \* the thread that created the runtime
    MaxArguments    \* bound: arguments of one call

ASSUME ThreadAssumption ==
    /\ Owner \in Thread
    /\ MaxArguments \in Nat
    /\ Thread \cap (Value \cup {None, "earlier"}) = {}

Wrapper == Value

VARIABLES
    wrappers,   \* the wrapper objects, each with the handle it keeps
    call,       \* per thread, the call it makes
    allocated,  \* the guest buffers of the host: of a thread's call, argument
                \* 1, 2, ... and byte result 0; and Stranded
    lastError,  \* the last_error slot: whose failure it describes
    pending,    \* _pending: whose request the buffered response answers
    disposed    \* _disposed of the runtime

hostVars == <<wrappers, call, allocated, lastError, pending, disposed>>
allVars == <<vars, hostVars>>

NoCall == [at |-> "idle", kind |-> "none", of |-> None, uses |-> None, left |-> 0,
           owned |-> 0, held |-> 0, got |-> None, reply |-> None,
           outcome |-> "none", code |-> None, message |-> None]

Kind == {"make", "read", "change", "network"}
Inside == {"inside", "exchange", "answered"}
Place == {"idle", "arguments", "returned", "failed", "halfRead", "unwinding"} \cup Inside
Tag == Thread \cup {None, "earlier"}

\* A buffer that is in no call's list.  One stands for any number of them.
Stranded == <<None, 0>>

HostTypeOK ==
    /\ wrappers \in [Wrapper -> [handle : Handle \cup {0},
                                 state : {"none", "live", "disposed"}]]
    /\ call \in [Thread -> [at : Place, kind : Kind \cup {"none"},
                            of : Wrapper \cup {None}, uses : Wrapper \cup {None},
                            left : Nat, owned : Nat, held : 0..1,
                            got : Wrapper \cup Handle \cup {None}, reply : Tag,
                            outcome : {"none", "value", "refused", "error"},
                            code : Tag, message : Tag]]
    /\ allocated \subseteq (Thread \X Nat) \cup {Stranded}
    /\ lastError \in Tag /\ pending \in Tag
    /\ disposed \in BOOLEAN

-----------------------------------------------------------------------------
(* The host before the export *)

\* Mutant: EnsureUsable does not look at the thread.
UsableAnywhere(t) == ~disposed

\* EnsureUsable.
Usable(t) == ~disposed /\ t = Owner

At(t, place) == call[t].at = place

\* What thread t's call goes on with; it is refused by what throws without a
\* last error.
Goes(t, place) == call' = [call EXCEPT ![t].at = place]
Refused(t) == call' = [call EXCEPT ![t].at = "unwinding", ![t].outcome = "refused"]

\* A tag is relative to the calls in progress.
Aged(tag, t) == IF tag = t THEN "earlier" ELSE tag

Busy(w) == \E t \in Thread : ~At(t, "idle") /\ w \in {call[t].of, call[t].uses}

\* A method of a wrapper, disposed or not, or a constructor: these take a
\* fresh slot, or one whose wrapper nobody uses any more.  Constructors stand
\* for all calls that name a further object.
Begin(t, kind, w, u) ==
    /\ At(t, "idle")
    /\ IF kind = "make" THEN wrappers[w].state # "live" /\ ~Busy(w) /\ u # w
                        ELSE wrappers[w].state # "none"
    /\ kind # "make" => u = None
    /\ \A a \in {u} \ {None} : wrappers[a].state # "none"
    /\ \A s \in Thread : ~At(s, "idle") /\ call[s].kind = "make" => call[s].of \notin {w, u}
    /\ \E n \in 0..MaxArguments :
         call' = [call EXCEPT ![t] = [NoCall EXCEPT !.at = "arguments", !.kind = kind,
                                                    !.of = w, !.uses = u, !.left = n]]
    /\ lastError' = Aged(lastError, t)
    /\ pending' = Aged(pending, t)
    /\ UNCHANGED <<vars, wrappers, allocated, disposed>>

\* A buffer is allocated, registered in the call's list and filled...
Written(t) ==
    /\ allocated' = allocated \cup {<<t, call[t].owned + 1>>}
    /\ call' = [call EXCEPT ![t].left = @ - 1, ![t].owned = @ + 1]

\* ...or it is allocated and registered, and the copy into it throws...
CopyThrows(t) ==
    /\ allocated' = allocated \cup {<<t, call[t].owned + 1>>}
    /\ call' = [call EXCEPT ![t].at = "unwinding", ![t].outcome = "refused",
                            ![t].owned = @ + 1]

\* ...or it is allocated, and the copy throws before it is registered...
CopyThrowsUnregistered(t) ==
    /\ allocated' = allocated \cup {Stranded}
    /\ Refused(t)

\* ...or the check before or the allocator itself throws.
NotAllocated(t) == Refused(t) /\ UNCHANGED allocated

\* Write, which registers the buffer before it copies.
WriteText(t) ==
    /\ At(t, "arguments") /\ call[t].left > 0
    /\ NotAllocated(t) \/ (Usable(t) /\ (Written(t) \/ CopyThrows(t)))
    /\ UNCHANGED <<vars, wrappers, lastError, pending, disposed>>

\* WriteBytes, which copies before it registers the buffer, and which enters
\* the module without EnsureUsable; that of a disposed runtime throws.
WriteBytes(t) ==
    /\ At(t, "arguments") /\ call[t].left > 0
    /\ NotAllocated(t) \/ (~disposed /\ (Written(t) \/ CopyThrowsUnregistered(t)))
    /\ UNCHANGED <<vars, wrappers, lastError, pending, disposed>>

\* Invoke and Export.
Invoke(t) ==
    /\ At(t, "arguments") /\ call[t].left = 0
    /\ IF Usable(t) THEN Goes(t, "inside") ELSE Refused(t)
    /\ UNCHANGED <<vars, wrappers, allocated, lastError, pending, disposed>>

-----------------------------------------------------------------------------
(* The exports *)

\* fail: the error goes to the shared slot and the export answers 0 or -1.
FailsWith(t) ==
    /\ Goes(t, "failed")
    /\ lastError' = t

\* bytes_result and a flag: a byte result is a buffer the host has to free.
Returns(t, answered, bytes) ==
    /\ call' = [call EXCEPT ![t].at = "returned", ![t].got = answered, ![t].held = bytes]
    /\ allocated' = IF bytes = 1 THEN allocated \cup {<<t, 0>>} ELSE allocated

HandleOf(w) == wrappers[w].handle
Known(u) == \A w \in {u} \ {None} : HandleOf(w) \in Live

\* Arguments that do not parse, or an operation that fails.
Fail(t) ==
    /\ At(t, "inside")
    /\ FailsWith(t)
    /\ UNCHANGED <<vars, wrappers, allocated, pending, disposed>>

\* An account, certificate or leaf argument whose handle is unknown.
ArgumentUnknown(t) ==
    /\ At(t, "inside") /\ ~Known(call[t].uses)
    /\ With(HandleOf(call[t].uses))
    /\ FailsWith(t)
    /\ UNCHANGED <<wrappers, allocated, pending, disposed>>

\* Constructors: the arguments are resolved, then the object is stored.
Make(t) ==
    /\ At(t, "inside") /\ call[t].kind = "make" /\ Known(call[t].uses)
    /\ Store(call[t].of)
    /\ Returns(t, next', 0)
    /\ UNCHANGED <<wrappers, lastError, pending, disposed>>

\* Getters, which answer with bytes or a flag.
Read(t) ==
    /\ At(t, "inside") /\ call[t].kind = "read"
    /\ With(HandleOf(call[t].of))
    /\ IF answer' # None
       THEN (\E bytes \in 0..1 : Returns(t, answer', bytes)) /\ UNCHANGED lastError
       ELSE FailsWith(t) /\ UNCHANGED allocated
    /\ UNCHANGED <<wrappers, pending, disposed>>

\* grant_access, revoke_access: the object is changed in its place.
Change(t) ==
    /\ At(t, "inside") /\ call[t].kind = "change"
    /\ LET h == HandleOf(call[t].of)
       IN  WithMut(h, IF h \in Live THEN entries[h] ELSE call[t].of)
    /\ IF answer' # None THEN Returns(t, answer', 0) /\ UNCHANGED lastError
                         ELSE FailsWith(t) /\ UNCHANGED allocated
    /\ UNCHANGED <<wrappers, pending, disposed>>

\* with_session: the client is found, and borrowed until its future is ready.
OpenSession(t) ==
    /\ At(t, "inside") /\ call[t].kind = "network"
    /\ With(HandleOf(call[t].of))
    /\ IF answer' # None
       THEN call' = [call EXCEPT ![t].at = "exchange", ![t].got = answer'] /\ UNCHANGED lastError
       ELSE FailsWith(t)
    /\ UNCHANGED <<wrappers, allocated, pending, disposed>>

\* exchange: HostFetch buffers the response, or the error of the request...
Fetch(t) ==
    /\ At(t, "exchange")
    /\ pending' = t
    /\ Goes(t, "answered")
    /\ UNCHANGED <<vars, wrappers, allocated, lastError, disposed>>

\* ...and HostTake copies it out and clears the buffer.
Take(t) ==
    /\ At(t, "answered")
    /\ call' = [call EXCEPT ![t].at = "exchange", ![t].reply = pending]
    /\ pending' = None
    /\ UNCHANGED <<vars, wrappers, allocated, lastError, disposed>>

\* block_on returns: the last response decided the outcome.
Complete(t) ==
    /\ At(t, "exchange") /\ call[t].reply # None
    /\ \/ Returns(t, call[t].got, 1) /\ UNCHANGED lastError
       \/ FailsWith(t) /\ UNCHANGED allocated
    /\ UNCHANGED <<vars, wrappers, pending, disposed>>

-----------------------------------------------------------------------------
(* The host after the export *)

\* TakeHandle.
TakeHandle(t) ==
    /\ At(t, "returned") /\ call[t].kind = "make"
    /\ wrappers' = [wrappers EXCEPT ![call[t].of] = [handle |-> call[t].got, state |-> "live"]]
    /\ call' = [call EXCEPT ![t].at = "unwinding", ![t].outcome = "value"]
    /\ UNCHANGED <<vars, allocated, lastError, pending, disposed>>

\* TakeFlag, and TakeBytes with ReadAndFreeBytes, which frees the bytes also when
\* reading them throws; with the runtime disposed it does.
TakeResult(t) ==
    /\ At(t, "returned") /\ call[t].kind # "make"
    /\ \E outcome \in {"value", "refused"} :
         /\ disposed => outcome = "refused"
         /\ call' = [call EXCEPT ![t].at = "unwinding", ![t].held = 0, ![t].outcome = outcome]
    /\ allocated' = IF disposed THEN {} ELSE allocated \ {<<t, 0>>}
    /\ UNCHANGED <<vars, wrappers, lastError, pending, disposed>>

\* LastError reads the code and the message with two calls.
ReadCode(t) ==
    /\ At(t, "failed")
    /\ IF disposed THEN Refused(t)
       ELSE call' = [call EXCEPT ![t].at = "halfRead", ![t].code = lastError]
    /\ UNCHANGED <<vars, wrappers, allocated, lastError, pending, disposed>>

ReadMessage(t) ==
    /\ At(t, "halfRead")
    /\ IF disposed THEN Refused(t)
       ELSE call' = [call EXCEPT ![t].at = "unwinding", ![t].outcome = "error",
                                 ![t].message = lastError]
    /\ UNCHANGED <<vars, wrappers, allocated, lastError, pending, disposed>>

Arguments(t) == {t} \X (1..call[t].owned)

\* Mutant: the buffers are freed after the result is taken, not in a finally.
UnwindOnSuccess(t) ==
    /\ At(t, "unwinding")
    /\ call' = [call EXCEPT ![t] = NoCall]
    /\ allocated' = IF call[t].outcome = "value" /\ ~disposed
                    THEN allocated \ Arguments(t) ELSE allocated
    /\ UNCHANGED <<vars, wrappers, lastError, pending, disposed>>

\* FreeAll, in the finally of every call and on whatever thread it runs.
Unwind(t) ==
    /\ At(t, "unwinding")
    /\ call' = [call EXCEPT ![t] = NoCall]
    /\ allocated' = IF disposed THEN {} ELSE allocated \ Arguments(t)
    /\ UNCHANGED <<vars, wrappers, lastError, pending, disposed>>

\* Mutant: Dispose of a wrapper does not remember that it ran.
DisposeEveryTime(t, w) ==
    /\ At(t, "idle") /\ wrappers[w].state # "none"
    /\ wrappers' = [wrappers EXCEPT ![w].state = "disposed"]
    /\ IF Usable(t) THEN Remove(HandleOf(w)) ELSE UNCHANGED vars
    /\ UNCHANGED <<call, allocated, lastError, pending, disposed>>

\* Dispose of a wrapper: the flag is set first, and Free then throws on a
\* thread that is not the owner, or does nothing once the runtime is disposed.
DisposeWrapper(t, w) ==
    /\ At(t, "idle") /\ wrappers[w].state = "live"
    /\ wrappers' = [wrappers EXCEPT ![w].state = "disposed"]
    /\ IF Usable(t) THEN Remove(HandleOf(w)) ELSE UNCHANGED vars
    /\ UNCHANGED <<call, allocated, lastError, pending, disposed>>

\* Dispose of the runtime, which checks no thread.  Disposing of the store
\* while an export runs in it is left out.
DisposeRuntime(t) ==
    /\ At(t, "idle") /\ ~disposed
    /\ \A s \in Thread : call[s].at \notin Inside
    /\ disposed' = TRUE
    /\ allocated' = {}
    /\ UNCHANGED <<vars, wrappers, call, lastError, pending>>

HostInit ==
    /\ Init
    /\ wrappers = [w \in Wrapper |-> [handle |-> 0, state |-> "none"]]
    /\ call = [t \in Thread |-> NoCall]
    /\ allocated = {}
    /\ lastError = None /\ pending = None
    /\ disposed = FALSE

Step(t) ==
    \/ WriteText(t) \/ WriteBytes(t) \/ Invoke(t)
    \/ Fail(t) \/ ArgumentUnknown(t) \/ Make(t) \/ Read(t) \/ Change(t)
    \/ OpenSession(t) \/ Fetch(t) \/ Take(t) \/ Complete(t)
    \/ TakeHandle(t) \/ TakeResult(t) \/ ReadCode(t) \/ ReadMessage(t) \/ Unwind(t)

HostNext ==
    \E t \in Thread :
        \/ Step(t)
        \/ \E kind \in Kind, w \in Wrapper, u \in Wrapper \cup {None} : Begin(t, kind, w, u)
        \/ \E w \in Wrapper : DisposeWrapper(t, w)
        \/ DisposeRuntime(t)

HostSpec == HostInit /\ [][HostNext]_allVars
-----------------------------------------------------------------------------
(* Properties *)

\* The handle of a wrapper that was not disposed of leads to the object it was
\* made for, although handles are freed and given out again in between.
WrapperOwnsObject ==
    ~disposed => \A w \in Wrapper :
        wrappers[w].state = "live" => HandleOf(w) \in Live /\ entries[HandleOf(w)] = w

\* Whatever other threads try, a call returns what belongs to it: the answer of
\* its own wrapper's object, made of the responses to its own requests, or the
\* code and the message of its own failure (TakeBytes, LastError, exchange).
ReturnsOwn ==
    \A t \in Thread :
        /\ call[t].outcome = "value" /\ call[t].kind # "make" =>
              \/ wrappers[call[t].of].state = "disposed"
              \/ call[t].got = call[t].of
        /\ call[t].outcome = "value" => call[t].reply \in {None, t}
        /\ call[t].outcome = "error" => call[t].code = t /\ call[t].message = t

\* What the guest holds for a thread's call, and what the call is going to free.
HeldFor(t) == {buffer \in allocated : buffer[1] = t}
ToFree(t) == Arguments(t) \cup (IF call[t].held = 1 THEN {<<t, 0>>} ELSE {})

\* The guest holds for each call exactly the buffers the call is going to free,
\* and none between calls: none is freed twice, and none that a list names is
\* kept, also by calls that are refused, throw or fail half-way (the finally
\* blocks with FreeAll and ReadAndFreeBytes).  This says nothing of the buffers
\* that are in no list, those whose copy threw in WriteBytes: they do leak.
BuffersOwned ==
    \A t \in Thread : HeldFor(t) = IF disposed THEN {} ELSE ToFree(t)

\* The inductive invariant behind them.  Only the owner's calls get past Invoke,
\* so the shared slots hold what belongs to the one call that is there, and a
\* wrapper that is being made is named by no other call.
Past == Inside \cup {"returned", "failed", "halfRead"}

CallShape(t) ==
    /\ At(t, "idle") => call[t] = NoCall
    /\ ~At(t, "idle") => call[t].of \in Wrapper /\ call[t].kind \in Kind
    /\ call[t].outcome # "none" => At(t, "unwinding")
    /\ call[t].held = 1 => At(t, "returned") /\ call[t].kind # "make"
    /\ call[t].at \in {"exchange", "answered"} => call[t].kind = "network"

Confinement(t) ==
    /\ call[t].at \in Past => t = Owner
    /\ call[t].at \in Inside => ~disposed

OwnSlots(t) ==
    /\ call[t].reply \in {None, t}
    /\ At(t, "answered") => pending = t
    /\ call[t].at \in {"failed", "halfRead"} => lastError = t
    /\ At(t, "halfRead") => call[t].code = t
    /\ call[t].outcome = "error" => call[t].code = t /\ call[t].message = t

Answering(t) ==
    /\ call[t].kind \in Kind \ {"make"}
    /\ call[t].at \in {"exchange", "answered", "returned"} \/ call[t].outcome = "value"

OwnObject(t) ==
    /\ ~At(t, "idle") /\ call[t].kind # "make" => wrappers[call[t].of].state # "none"
    /\ Answering(t) => call[t].got = call[t].of \/ wrappers[call[t].of].state = "disposed"

Making(t) ==
    ~At(t, "idle") /\ call[t].kind = "make" =>
        /\ \A s \in Thread \ {t} : ~At(s, "idle") => call[s].of # call[t].of
        /\ ~At(t, "unwinding") => wrappers[call[t].of].state # "live"
        /\ At(t, "returned") =>
              /\ call[t].got \in Handle
              /\ ~disposed => call[t].got \in Live /\ entries[call[t].got] = call[t].of

ThreadInv(t) ==
    CallShape(t) /\ Confinement(t) /\ OwnSlots(t) /\ OwnObject(t) /\ Making(t)

HostInv ==
    /\ IInv
    /\ HostTypeOK
    /\ WrapperOwnsObject
    /\ \A t \in Thread : ThreadInv(t)
    /\ BuffersOwned

\* A runtime is confined to the thread that created it: no other thread's
\* arguments are ever in the module (remarks of WasmRuntime).
Confined == \A t \in Thread \ {Owner} : call[t].owned = 0
=============================================================================
