------------------------------ MODULE AddonHost ------------------------------
(***************************************************************************)
(* Sandboxed addons in one browser tab: the stored list, the surfaces that *)
(* start an addon in a frame of its own, the messages between the page and *)
(* the worker in that frame, and the calls that wait for an answer.  A     *)
(* frame is named by the visit that starts it; visit 0 is the preview.     *)
(***************************************************************************)
EXTENDS Naturals, Sequences, FiniteSets

CONSTANTS
  Addons,      \* addons that run in a frame (descriptor kind `local`)
  Questions,   \* what surfaces ask of addons
  MaxVisits,   \* bound: visits of pages that use addons
  MaxStores,   \* bound: values an addon's worker stores
  MaxChanges   \* bound: changes the reader makes on the addons page

ASSUME AddonsAssumption == {MaxVisits, MaxStores, MaxChanges} \subseteq Nat

VARIABLES
  stored,      \* localStorage btf.addons: "absent", "on" or "off"
  state,       \* addons with a localStorage key btf.addon-state.<id>
  page,        \* the surface on screen: [visit, pc]
  visits,      \* visits so far
  offered,     \* the addon whose consent card is shown
  frames,      \* <<visit, addon>> -> what runs in it:
               \*   pc (host side), worker, mail (messages to the page),
               \*   pending (call id -> question), asked (calls the worker has), sequence
  document,    \* frames in the document
  listening,   \* frames whose onMessage is registered
  answers,     \* question -> what its surface was told
  stores, changes   \* what the bounds count

listVars == <<stored, state, offered, changes>>
frameVars == <<frames, document, listening>>
hostVars == <<listVars, frameVars, page, visits, answers, stores>>

NoAddon == "none"
Frames == (0..MaxVisits) \X Addons
Vacant(pc) == [pc |-> pc, worker |-> "none", mail |-> << >>, pending |-> << >>, asked |-> {}, sequence |-> 0]
NoFrame == Vacant("unused")

AddonsInit ==
  /\ stored \in [Addons -> {"absent", "on"}] /\ state = {} /\ offered = NoAddon
  /\ page = [visit |-> 0, pc |-> "away"]
  /\ frames = [f \in Frames |-> NoFrame] /\ document = {} /\ listening = {}
  /\ answers = [q \in Questions |-> "unasked"]
  /\ visits \in 0..MaxVisits /\ stores \in 0..MaxStores /\ changes \in 0..MaxChanges

Message(type, id, q) == [type |-> type, id |-> id, q |-> q]
Signal(type) == Message(type, 0, "none")
Post(row, m) == [row EXCEPT !.mail = Append(@, m)]
-----------------------------------------------------------------------------
(* startLocalAddon. *)

(* fetchBundle and assertIntegrity, then a frame, its listener and a timer. *)
Appear(f) ==
  /\ frames[f].pc = "fetching"
  /\ frames' = [frames EXCEPT ![f] = [frames[f] EXCEPT !.pc = "boot"]]
  /\ document' = document \cup {f} /\ listening' = listening \cup {f}
  /\ UNCHANGED <<listVars, page, visits, answers, stores>>

NotFetched(f) ==
  /\ frames[f].pc = "fetching"
  /\ frames' = [frames EXCEPT ![f] = [frames[f] EXCEPT !.pc = "failed"]]
  /\ UNCHANGED <<listVars, document, listening, page, visits, answers, stores>>

(* Mutant: a start that fails goes on listening. *)
FailListening(f) ==
  /\ frames' = [frames EXCEPT ![f] = Vacant("failed")]
  /\ document' = document \ {f}
  /\ UNCHANGED listening

(* fail: before the addon was handed over. *)
Fail(f) ==
  /\ frames' = [frames EXCEPT ![f] = Vacant("failed")]
  /\ document' = document \ {f} /\ listening' = listening \ {f}

BootTimeout(f) ==
  /\ frames[f].pc = "boot" /\ Fail(f)
  /\ UNCHANGED <<listVars, page, visits, answers, stores>>

Refused(qs) == [q \in Questions |-> IF q \in qs /\ answers[q] = "waiting" THEN "failed" ELSE answers[q]]
Waited(f) == {frames[f].pending[id] : id \in DOMAIN frames[f].pending}
(* Mutant: what waited is dropped. *)
DestroyQuietly(f) ==
  /\ frames' = [frames EXCEPT ![f] = Vacant("stopped")]
  /\ document' = document \ {f} /\ listening' = listening \ {f}
  /\ UNCHANGED answers
(* destroy: every call that waits is refused, and the frame goes. *)
Destroy(f) ==
  /\ frames' = [frames EXCEPT ![f] = Vacant("stopped")]
  /\ document' = document \ {f} /\ listening' = listening \ {f}
  /\ answers' = Refused(Waited(f))

-----------------------------------------------------------------------------
(* The frame and its worker; taken out of the document, they are gone. *)

FrameLoads(f) ==
  /\ f \in document /\ frames[f].worker = "none"
  /\ frames' = [frames EXCEPT ![f] = Post([frames[f] EXCEPT !.worker = "loaded"], Signal("booted"))]
  /\ UNCHANGED <<listVars, document, listening, page, visits, answers, stores>>

(* registerAddon. *)
WorkerRegisters(f) ==
  /\ f \in document /\ frames[f].worker = "started"
  /\ frames' = [frames EXCEPT ![f] = Post([frames[f] EXCEPT !.worker = "ready"], Signal("ready"))]
  /\ UNCHANGED <<listVars, document, listening, page, visits, answers, stores>>

(* An uncaught error, or a value that cannot be cloned. *)
WorkerDies(f) ==
  /\ f \in document /\ frames[f].worker \in {"started", "ready"}
  /\ frames' = [frames EXCEPT ![f] = Post([frames[f] EXCEPT !.worker = "dead"], Signal("fatal"))]
  /\ UNCHANGED <<listVars, document, listening, page, visits, answers, stores>>

(* Calls reach the worker as soon as they are made, and it answers each at *)
(* most once, in any order or never, whether or not the caller still waits. *)
WorkerAnswers(f, id, q) ==
  /\ f \in document /\ frames[f].worker = "ready"
  /\ <<id, q>> \in frames[f].asked
  /\ frames' = [frames EXCEPT ![f] =
                  Post([frames[f] EXCEPT !.asked = @ \ {<<id, q>>}], Message("result", id, q))]
  /\ UNCHANGED <<listVars, document, listening, page, visits, answers, stores>>

(* golden.storage.set, whenever the addon's code likes. *)
WorkerStores(f) ==
  /\ f \in document /\ frames[f].worker = "ready" /\ stores < MaxStores
  /\ stores' = stores + 1
  /\ frames' = [frames EXCEPT ![f] = Post(frames[f], Signal("store"))]
  /\ UNCHANGED <<listVars, document, listening, page, visits, answers>>

-----------------------------------------------------------------------------
(* onMessage. *)

Next1(f, type) == f \in listening /\ frames[f].mail # << >> /\ Head(frames[f].mail).type = type
Read(f) == [frames[f] EXCEPT !.mail = Tail(@)]

OnBooted(f) ==
  /\ Next1(f, "booted")
  /\ frames' = [frames EXCEPT ![f] = [Read(f) EXCEPT !.worker = "started"]]
  /\ UNCHANGED <<listVars, document, listening, page, visits, answers, stores>>

(* The manifest is read; a preview has then done its job and is stopped,   *)
(* and the reader is asked.  The manifest may be unreadable.               *)
OnReady(f) ==
  /\ Next1(f, "ready")
  /\ \/ frames[f].pc = "boot" /\ Fail(f) /\ UNCHANGED <<answers, offered>>
     \/ frames[f].pc = "boot" /\ f[1] = 0 /\ Destroy(f) /\ offered' = IF page.pc = "away" THEN f[2] ELSE NoAddon
     \/ /\ frames[f].pc # "boot" \/ f[1] # 0
        /\ frames' = [frames EXCEPT ![f] = [Read(f) EXCEPT !.pc = IF @ = "boot" THEN "up" ELSE @]]
        /\ UNCHANGED <<document, listening, answers, offered>>
  /\ UNCHANGED <<stored, state, changes, page, visits, stores>>

Settled(row, id) == [row EXCEPT !.pending = [i \in DOMAIN @ \ {id} |-> @[i]]]

(* settle: a call nobody waits for any more is not found. *)
OnResult(f) ==
  /\ Next1(f, "result")
  /\ LET m == Head(frames[f].mail)
         waiting == m.id \in DOMAIN frames[f].pending
         q == frames[f].pending[m.id]
     IN /\ frames' = [frames EXCEPT ![f] = Settled(Read(f), m.id)]
        /\ IF waiting /\ answers[q] = "waiting"
           THEN \E ok \in BOOLEAN : answers' = [answers EXCEPT ![q] = IF ok THEN m.q ELSE "failed"]
           ELSE UNCHANGED answers
  /\ UNCHANGED <<listVars, document, listening, page, visits, stores>>

OnFatal(f) ==
  /\ Next1(f, "fatal")
  /\ IF frames[f].pc = "boot" THEN Fail(f) /\ UNCHANGED answers ELSE Destroy(f)
  /\ UNCHANGED <<listVars, page, visits, stores>>

(* runCapability, storageSet: a preview keeps its values in memory. *)
OnStore(f) ==
  /\ Next1(f, "store")
  /\ frames' = [frames EXCEPT ![f] = Read(f)]
  /\ state' = IF f[1] = 0 THEN state ELSE state \cup {f[2]}
  /\ UNCHANGED <<stored, offered, changes, document, listening, page, visits, answers, stores>>

-----------------------------------------------------------------------------
(* A surface: useAddons and what it asks. *)

(* loadAddons starts every stored addon, switched off or not. *)
Visit ==
  /\ page.pc = "away" /\ visits < MaxVisits
  /\ visits' = visits + 1
  /\ page' = [visit |-> visits + 1, pc |-> "loading"]
  /\ frames' = [f \in Frames |-> IF f[1] = visits + 1 /\ stored[f[2]] # "absent"
                                THEN Vacant("fetching") ELSE frames[f]]
  /\ offered' = NoAddon
  /\ UNCHANGED <<stored, state, changes, document, listening, answers, stores>>

Started == {f \in Frames : f[1] = page.visit /\ frames[f].pc # "unused"}

(* Promise.all over starts that report their failures. *)
Loaded ==
  /\ page.pc = "loading"
  /\ \A f \in Started : frames[f].pc \in {"up", "stopped", "failed"}
  /\ page' = [page EXCEPT !.pc = "shown"]
  /\ UNCHANGED <<listVars, frameVars, visits, answers, stores>>

(* The effect's cleanup: nobody looks at what was asked, and that is all.  *)
Leave ==
  /\ page.pc # "away"
  /\ page' = [page EXCEPT !.pc = "away"]
  /\ answers' = Refused(Questions)
  /\ UNCHANGED <<listVars, frameVars, visits, stores>>

Called(row, id, q) ==
  [[row EXCEPT !.pending = [i \in DOMAIN @ \cup {id} |-> IF i = id THEN q ELSE @[i]]]
     EXCEPT !.asked = @ \cup {<<id, q>>}]

(* Mutant: ids are handed out again. *)
InvokeAnew(f, q) ==
  /\ page.pc = "shown" /\ f[1] = page.visit /\ answers[q] = "unasked"
  /\ frames[f].pc = "up" /\ stored[f[2]] = "on"
  /\ LET id == Cardinality(DOMAIN frames[f].pending) + 1 IN
       frames' = [frames EXCEPT ![f] = Called([frames[f] EXCEPT !.sequence = @ + 1], id, q)]
  /\ answers' = [answers EXCEPT ![q] = "waiting"]
  /\ UNCHANGED <<listVars, document, listening, page, visits, stores>>

(* Mutant: the number is not counted on. *)
InvokeUncounted(f, q) ==
  /\ page.pc = "shown" /\ f[1] = page.visit /\ answers[q] = "unasked"
  /\ frames[f].pc = "up" /\ stored[f[2]] = "on"
  /\ LET id == frames[f].sequence + 1 IN
       frames' = [frames EXCEPT ![f] = Called(frames[f], id, q)]
  /\ answers' = [answers EXCEPT ![q] = "waiting"]
  /\ UNCHANGED <<listVars, document, listening, page, visits, stores>>

(* invoke, on an addon of this surface that was on when it was loaded.     *)
Invoke(f, q) ==
  /\ page.pc = "shown" /\ f[1] = page.visit /\ answers[q] = "unasked"
  /\ frames[f].pc = "up" /\ stored[f[2]] = "on"
  /\ LET id == frames[f].sequence + 1 IN
       frames' = [frames EXCEPT ![f] = Called([frames[f] EXCEPT !.sequence = id], id, q)]
  /\ answers' = [answers EXCEPT ![q] = "waiting"]
  /\ UNCHANGED <<listVars, document, listening, page, visits, stores>>

InvokeStopped(f, q) ==
  /\ page.pc = "shown" /\ f[1] = page.visit /\ answers[q] = "unasked"
  /\ frames[f].pc = "stopped" /\ stored[f[2]] = "on"
  /\ answers' = [answers EXCEPT ![q] = "failed"]
  /\ UNCHANGED <<listVars, frameVars, page, visits, stores>>

(* The call's own timer, and the shorter one of settleAddons, which leaves *)
(* the call where it is.                                                   *)
CallTimesOut(f, id) ==
  /\ id \in DOMAIN frames[f].pending
  /\ frames' = [frames EXCEPT ![f] = Settled(frames[f], id)]
  /\ answers' = Refused({frames[f].pending[id]})
  /\ UNCHANGED <<listVars, document, listening, page, visits, stores>>
GiveUp(q) ==
  /\ answers[q] = "waiting"
  /\ answers' = Refused({q})
  /\ UNCHANGED <<listVars, frameVars, page, visits, stores>>

-----------------------------------------------------------------------------
(* AddonManager, on a page of its own; every write may be refused.         *)

Change == page.pc = "away" /\ changes < MaxChanges /\ changes' = changes + 1

Preview(a) ==
  /\ Change /\ frames[<<0, a>>].pc \in {"unused", "failed", "stopped"}
  /\ frames' = [frames EXCEPT ![<<0, a>>] = Vacant("fetching")]
  /\ UNCHANGED <<stored, state, offered, document, listening, page, visits, answers, stores>>

Install ==
  /\ page.pc = "away" /\ offered # NoAddon
  /\ stored' \in {stored, [stored EXCEPT ![offered] = IF @ = "absent" THEN "on" ELSE @]}
  /\ offered' = NoAddon
  /\ UNCHANGED <<state, changes, frameVars, page, visits, answers, stores>>

Remove(a) ==
  /\ Change /\ stored[a] # "absent"
  /\ stored' \in {stored, [stored EXCEPT ![a] = "absent"]}
  /\ state' = state \ {a}
  /\ UNCHANGED <<offered, frameVars, page, visits, answers, stores>>

Toggle(a) ==
  /\ Change /\ stored[a] # "absent"
  /\ stored' \in {stored, [stored EXCEPT ![a] = IF @ = "on" THEN "off" ELSE "on"]}
  /\ UNCHANGED <<state, offered, frameVars, page, visits, answers, stores>>

-----------------------------------------------------------------------------
OnMessage(f) == OnBooted(f) \/ OnReady(f) \/ OnResult(f) \/ OnFatal(f) \/ OnStore(f)

AddonsNext ==
  \/ \E f \in Frames :
       \/ Appear(f) \/ NotFetched(f) \/ BootTimeout(f) \/ OnMessage(f)
       \/ FrameLoads(f) \/ WorkerRegisters(f) \/ WorkerDies(f) \/ WorkerStores(f)
       \/ \E call \in frames[f].asked : WorkerAnswers(f, call[1], call[2])
       \/ \E id \in DOMAIN frames[f].pending : CallTimesOut(f, id)
       \/ \E q \in Questions : Invoke(f, q) \/ InvokeStopped(f, q)
  \/ Visit \/ Loaded \/ Leave \/ Install
  \/ \E q \in Questions : GiveUp(q)
  \/ \E a \in Addons : Preview(a) \/ Remove(a) \/ Toggle(a)

AddonsSpec == AddonsInit /\ [][AddonsNext]_hostVars

(* Timers fire, messages are delivered and a download ends one way or the  *)
(* other.  Nothing makes the addon's own code do anything.                 *)
AddonsFairness ==
  /\ \A f \in Frames : /\ WF_hostVars(Appear(f) \/ NotFetched(f)) /\ WF_hostVars(BootTimeout(f))
                       /\ WF_hostVars(OnMessage(f))
                       /\ WF_hostVars(\E id \in DOMAIN frames[f].pending : CallTimesOut(f, id))
  /\ WF_hostVars(Loaded)

-----------------------------------------------------------------------------
AddonsTypeOK ==
  /\ stored \in [Addons -> {"absent", "on", "off"}] /\ state \subseteq Addons /\ offered \in Addons \cup {NoAddon}
  /\ page \in [visit : 0..MaxVisits, pc : {"away", "loading", "shown"}]
  /\ document \subseteq Frames /\ listening \subseteq Frames
  /\ \A f \in Frames :
       /\ frames[f].pc \in {"unused", "fetching", "boot", "up", "failed", "stopped"}
       /\ frames[f].worker \in {"none", "loaded", "started", "ready", "dead"}
       /\ \A id \in DOMAIN frames[f].pending : id \in 1..frames[f].sequence /\ frames[f].pending[id] \in Questions
  /\ answers \in [Questions -> Questions \cup {"unasked", "waiting", "failed"}]

(* A start that failed, at whatever moment, and an addon that was stopped  *)
(* leave no frame, no listener and nobody waiting.                         *)
NothingLeftBehind ==
  \A f \in Frames : frames[f].pc \notin {"boot", "up"} =>
    f \notin document \cup listening /\ frames[f].mail = << >> /\ frames[f].pending = << >>

(* A surface that is given an answer is given the answer to its question:  *)
(* one that comes after the time-out is nobody's.                          *)
AnswersFit == \A q \in Questions : answers[q] \in {"unasked", "waiting", "failed", q}

(* Every call is over some time, also one to a worker that never answers,  *)
(* dies or is stopped; and a surface gets its addons whatever becomes of   *)
(* one of them.                                                            *)
AddonsRespond ==
  /\ \A q \in Questions : (answers[q] = "waiting") ~> (answers[q] # "waiting")
  /\ (page.pc = "loading") ~> (page.pc # "loading")
=============================================================================
