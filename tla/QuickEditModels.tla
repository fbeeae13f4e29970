--------------------------- MODULE QuickEditModels ---------------------------
(***************************************************************************)
(* The Backbone models and views of in-place editing (Quick Edit) as       *)
(* operators on the state of the page.  JavaScript runs a handler to its   *)
(* end: a set() calls its listeners before it returns, so that one click   *)
(* may move an entity and several of its fields.  Every operator below     *)
(* takes the page as it is and returns the page after that call, listeners *)
(* included; what the code defers (_.defer) or asks the server for is      *)
(* added to page.deferred and page.requests.                               *)
(*                                                                         *)
(* Backbone calls the listeners of a field in the order they were added:   *)
(* the field's editor, its entity, the application.                        *)
(***************************************************************************)
EXTENDS Naturals, Sequences, FiniteSets, SequencesExt

CONSTANTS
    PageOrder,   \* the in-place editable entities, in the order of the page
    FieldsOf,    \* FieldsOf[e]: the fields of entity e, in order
    EditorOf,    \* EditorOf[f]: "form", "plain" or "filtered"
    OtherModes,  \* OtherModes[f]: instances of f's field in other view modes
    NoField,     \* the application has no active or highlighted field
    Destroyed,   \* a field model that was destroyed
    NoEntity     \* no modal is open

Entity == ToSet(PageOrder)
Field  == UNION {ToSet(FieldsOf[e]) : e \in Entity}

ASSUME PageAssumption ==
  /\ PageOrder \in Seq(Entity)
  /\ \A e \in Entity : FieldsOf[e] \in Seq(Field)
  /\ \A f \in Field : /\ EditorOf[f] \in {"form", "plain", "filtered"}
                       /\ OtherModes[f] \in Seq(Field)
  /\ {NoField, Destroyed} \cap Field = {} /\ NoField # Destroyed /\ NoEntity \notin Entity

EntityOf(f) == CHOOSE e \in Entity : f \in ToSet(FieldsOf[e])

EntityStates == <<"closed", "launching", "opening", "opened", "committing",
                  "deactivating", "closing">>

FieldStates == <<"inactive", "candidate", "highlighted", "activating",
                 "active", "changed", "saving", "saved", "invalid">>

Position(states) == [s \in ToSet(states) |-> CHOOSE i \in 1..Len(states) : states[i] = s]

EntityPosition == Position(EntityStates)
FieldPosition  == Position(FieldStates)

Ready   == {"candidate", "highlighted"}
Active  == {"activating", "active"}
Single  == {"highlighted", "activating", "active"}
Changed == {"changed", "saving", "saved", "invalid"}

(* The elements of s that are in T, in order.                              *)
Keep(s, T) == FoldLeft(LAMBDA kept, x : IF x \in T THEN Append(kept, x) ELSE kept, <<>>, s)

----------------------------------------------------------------------------
(* Deferred callbacks and requests.                                        *)

Defer(p, task) == [p EXCEPT !.deferred = Append(@, task)]

FieldTask(f, to)           == [do |-> "field", f |-> f, to |-> to]
EntityTask(e, to, ready)   == [do |-> "entity", e |-> e, to |-> to, ready |-> ready]
Task(do, x)                == [do |-> do, x |-> x]

(* A request to the server.  "of" says what became of the field model and  *)
(* form that asked: "current", "removed" (the form is gone) or "destroyed".*)
(* Equal requests are told apart by their number.                          *)
Send(p, kind, x, reset) ==
  LET same == {r \in p.requests : r.kind = kind /\ r.x = x}
      n    == CHOOSE i \in 1..(Cardinality(same) + 1) : \A r \in same : r.n # i
  IN [p EXCEPT !.requests =
        @ \union {[kind |-> kind, x |-> x, reset |-> reset, of |-> "current", n |-> n]}]

----------------------------------------------------------------------------
(* Entities: validation and the temporary store.                           *)

(* fieldsInTempStore: an entity has the array of the model's defaults,     *)
(* shared by all entities, until it sets one of its own.                   *)
Kept(p, e) == IF e \in p.owns THEN p.kept[e] ELSE p.sharedKept

FieldsIn(p, e, states) == {f \in ToSet(FieldsOf[e]) : p.field[f] \in states}

(* EntityModel.validate() of anything but a new state: isCommitting is a   *)
(* mutex, and while it is TRUE every set() that keeps it TRUE is refused.  *)
AcceptsSet(p, e) == e \notin p.isCommitting

AcceptsState(p, e, to, why, ready) ==
  LET from == p.entity[e] IN
    /\ \/ EntityPosition[from] < EntityPosition[to]
       \/ from = "closing" /\ to = "closed"
       \/ from = "committing" /\ to = "opened" /\ why \in {"invalid", "networkerror"}
       \/ from = "deactivating" /\ to = "opened" /\ why = "confirming"
    /\ ready = {} \/ FieldsIn(p, e, ready) = ToSet(FieldsOf[e])

(* EntityModel._updateInTempStoreAttributes(): the array is changed in     *)
(* place before it is set.                                                 *)
UpdateInTempStoreAttributes(p, e, f) ==
  IF p.field[f] # "saved" THEN p
  ELSE LET pushed == IF e \in p.owns
                     THEN [p EXCEPT !.kept[e] = @ \union {f}]
                     ELSE [p EXCEPT !.sharedKept = @ \union {f}]
       IN IF ~AcceptsSet(p, e) THEN pushed
          ELSE [pushed EXCEPT !.inTempStore = @ \union {e},
                              !.kept[e] = Kept(pushed, e),
                              !.owns = @ \union {e}]

(* Mutation: isCommitting is set without asking for fields in an acceptable*)
(* state, or (second one) is no mutex.                                     *)
CommitAnyFields(p, e) ==
  IF AcceptsSet(p, e) THEN Send([p EXCEPT !.isCommitting = @ \union {e}], "entity", e, FALSE)
  ELSE p

CommitAgain(p, e) ==
  IF FieldsIn(p, e, Ready) = ToSet(FieldsOf[e])
  THEN Send([p EXCEPT !.isCommitting = @ \union {e}], "entity", e, FALSE)
  ELSE p

(* set('isCommitting', true) and, when it is accepted, the request that    *)
(* saves the entity.                                                       *)
TryCommit(p, e) ==
  IF AcceptsSet(p, e) /\ FieldsIn(p, e, Ready) = ToSet(FieldsOf[e])
  THEN Send([p EXCEPT !.isCommitting = @ \union {e}], "entity", e, FALSE)
  ELSE p

(* EntityModel.fieldStateChange(): field f of e came from a state to its   *)
(* present one.                                                            *)
FieldStateChange(p, e, f) ==
  LET to == p.field[f] IN
  CASE p.entity[e] = "opening" -> Defer(p, EntityTask(e, "opened", Ready))
    [] p.entity[e] = "opened" ->
         IF to = "changed"
         THEN IF AcceptsSet(p, e) THEN [p EXCEPT !.isDirty = @ \union {e}] ELSE p
         ELSE UpdateInTempStoreAttributes(p, e, f)
    [] p.entity[e] = "committing" ->
         TryCommit(IF to = "invalid" THEN Defer(p, Task("invalid", e))
                   ELSE UpdateInTempStoreAttributes(p, e, f), e)
    [] p.entity[e] = "deactivating" -> Defer(p, EntityTask(e, "closing", Ready))
    [] p.entity[e] = "closing" -> Defer(p, EntityTask(e, "closed", {"inactive"}))
    [] OTHER -> p

----------------------------------------------------------------------------
(* Editors.                                                                *)

(* The answer to a form that is no longer on the page finds no container.  *)
OrphanLoads(p, f) ==
  {IF r.kind = "load" /\ r.x = f /\ r.of = "current" THEN [r EXCEPT !.of = "removed"]
   ELSE r : r \in p.requests}

(* Mutation: the form is left in the page.                                 *)
KeepForm(p, f) == [p EXCEPT !.typed = @ \ {f}]

RemoveForm(p, f) ==
  [p EXCEPT !.form[f] = "none", !.typed = @ \ {f}, !.requests = OrphanLoads(p, f)]

(* Whether the first request for e's fields must clear the server's copy.  *)
Reset(p, f) == EntityOf(f) \notin p.inTempStore

(* stateChange() of the form editor, which opens a form.                   *)
FormStateChange(p, f, from) ==
  LET to == p.field[f] IN
  CASE to = "candidate" /\ from # "inactive" -> RemoveForm(p, f)
    [] to = "activating" /\ from # "invalid" ->
         Send([p EXCEPT !.form[f] = "loading", !.requests = OrphanLoads(p, f)],
              "load", f, Reset(p, f))
    [] to = "saving" ->
         IF p.form[f] = "none" THEN [p EXCEPT !.thrown = @ \union {"no form"}]
         ELSE Send([p EXCEPT !.typed = @ \ {f}], "submit", f, FALSE)
    [] OTHER -> p

(* stateChange() of the editors that edit the element itself, the plain    *)
(* text editor and the text editor for formatted text; a "filtered" text   *)
(* must first be fetched without its filters.                              *)
TextStateChange(p, f) ==
  LET to == p.field[f] IN
  CASE to = "activating" /\ EditorOf[f] = "plain" -> Defer(p, FieldTask(f, "active"))
    [] to = "activating" /\ EditorOf[f] = "filtered" -> Send(p, "text", f, FALSE)
    [] to = "saving" -> Send(p, "backstage", f, Reset(p, f))
    [] OTHER -> p

(* The in-place editor of f, where there is one, listens to its state.     *)
EditorStateChange(p, f, from) ==
  IF f \notin p.editor THEN p
  ELSE IF EditorOf[f] = "form" THEN FormStateChange(p, f, from)
  ELSE TextStateChange(p, f)

(* AppView.editorStateChange(): the highlighted and the active field of    *)
(* the page.  A field that goes from changed to candidate is reverted.     *)
TrackField(p, f, from) ==
  LET to == p.field[f]
      highlighted == CASE to \in Single -> f
                       [] p.highlightedField = f /\ to = "candidate" -> NoField
                       [] OTHER -> p.highlightedField
  IN IF p.activeField = f /\ to = "candidate"
     THEN [p EXCEPT !.highlightedField = highlighted, !.activeField = NoField,
                    !.typed = IF from \in {"changed", "invalid"} THEN @ \ {f} ELSE @]
     ELSE [p EXCEPT !.highlightedField = highlighted,
                    !.activeField = IF to \in Active THEN f ELSE @]

----------------------------------------------------------------------------
(* Fields.                                                                 *)

(* A change of state that was accepted, with its listeners.                *)
EnterField(p, f, to) ==
  LET from == p.field[f]
  IN TrackField(
       FieldStateChange(
         EditorStateChange([p EXCEPT !.field[f] = to], f, from), EntityOf(f), f), f, from)

(* Mutation: fields that are rerendered need not be taken to inactive.     *)
OnlyStop == {"stop"}

AlwaysAccepted == {"stop", "rerender"}

BackAllowed ==
  (Active \union {"changed", "invalid", "highlighted", "saved"}) \X {"candidate"}
    \union {<<"invalid", "saving">>, <<"invalid", "activating">>}

(* AppView.acceptEditorStateChange(), but for hopping.                     *)
Accepts(from, to, why) ==
  \/ why \in AlwaysAccepted
  \/ /\ FieldPosition[from] < FieldPosition[to] \/ <<from, to>> \in BackAllowed
     /\ why = "mouseleave" =>
          ~(from \in Active \union {"changed", "invalid"} /\ to = "candidate")

(* Mutation: nothing happens to the active field when another one is       *)
(* activated.                                                              *)
NeverHops(p, f, to, why) == FALSE

(* The user hops to f while another field is the active one.               *)
HopsTo(p, f, to, why) ==
  /\ why \notin AlwaysAccepted
  /\ p.field[f] \in Ready \union {"invalid"}
  /\ to \in Active
  /\ p.activeField \notin {NoField, f}

(* What becomes of the active field when the user hops to another one.     *)
LeaveActiveField(p) ==
  LET a == p.activeField IN
  CASE a = Destroyed -> p
    [] a # Destroyed /\ p.field[a] \in Active -> EnterField(p, a, "candidate")
    [] a # Destroyed /\ p.field[a] \in {"changed", "invalid"} -> EnterField(p, a, "saving")
    [] OTHER -> p

(* fieldModel.set('state', to): validated, then entered.  An invalid field *)
(* only becomes the active one again: its editor is still open.            *)
SetField(p, f, to, why) ==
  IF p.field[f] = to \/ ~Accepts(p.field[f], to, why) THEN p
  ELSE IF ~HopsTo(p, f, to, why) THEN EnterField(p, f, to)
  ELSE IF p.field[f] = "invalid" THEN [LeaveActiveField(p) EXCEPT !.activeField = f]
  ELSE EnterField(LeaveActiveField(p), f, to)

(* AppView.setupEditor() and teardownEditor().                             *)
SetupEditor(p, f)    == [p EXCEPT !.editor = @ \union {f}]
TeardownEditor(p, f) == [RemoveForm(p, f) EXCEPT !.editor = @ \ {f}]

(* AppView.rerenderedFieldToCandidate(), for the model of f just created.  *)
RerenderedFieldToCandidate(p, f) ==
  LET active == Keep(PageOrder, p.isActive)
  IN IF active = <<>> \/ Head(active) # EntityOf(f) THEN p
     ELSE SetField(SetupEditor(p, f), f, "candidate", "none")

(* renderField() of AppView.renderUpdatedField(): the model is destroyed,  *)
(* its element replaced, and behaviours create a new model for the new     *)
(* element.  Nothing listens to the old model any more.                    *)
RenderField(p, f) ==
  LET forget(g) == IF g = f THEN Destroyed ELSE g
      AboutField(t) == \/ t.do = "field" /\ t.f = f
                       \/ t.do \in {"html", "rerender", "replace"} /\ t.x = f
      old == [TeardownEditor(p, f) EXCEPT
                !.highlightedField = forget(@),
                !.activeField = forget(@),
                !.deferred = Keep(@, {t \in ToSet(@) : ~AboutField(t)}),
                !.requests = {IF r.x = f THEN [r EXCEPT !.of = "destroyed"] ELSE r : r \in @}]
  IN IF p.field[f] # "inactive" THEN [p EXCEPT !.thrown = @ \union {"destroy"}]
     ELSE RerenderedFieldToCandidate(old, f)

(* set('html'): f is rerendered after its listeners are done, its          *)
(* instances in other view modes at once (propagateUpdatedField()).        *)
SetHtml(p, f) ==
  FoldLeft(RenderField, Defer(p, Task("rerender", f)), OtherModes[f])

----------------------------------------------------------------------------
(* Entities: changes of state.                                             *)

SetEach(p, fields, to, why) ==
  FoldLeft(LAMBDA q, f : SetField(q, f, to, why), p, fields)

(* The fields whose state is one of these now, in order.                   *)
Those(p, e, states) == Keep(FieldsOf[e], FieldsIn(p, e, states))

(* Mutation: changed fields are not saved first.                           *)
CommitUnsaved(p, e) == SetEach(p, Those(p, e, Changed \union {"active"}), "candidate", "none")

(* stateChange() to 'committing'.                                          *)
Commit(p, e) ==
  LET idle == SetEach(p, Those(p, e, {"active"}), "candidate", "none")
  IN SetEach(idle, Those(idle, e, Changed), "saving", "none")

(* Mutation: a field that is ready already does not tell its entity.       *)
DeactivateSilently(p, e, why) ==
  IF /\ FieldsIn(p, e, {"changed", "invalid"}) \union Kept(p, e) # {}
     /\ why \notin {"saved", "confirmed"}
  THEN Defer([p EXCEPT !.entity[e] = "opened"], Task("confirm", e))
  ELSE SetEach(p, FieldsOf[e], "candidate", "none")

(* Field f of e is sent to candidate; when it is ready already, it still   *)
(* tells its entity.                                                       *)
SendToCandidate(p, e, f) ==
  IF p.field[f] \in Ready
  THEN TrackField(FieldStateChange(EditorStateChange(p, f, p.field[f]), e, f), f, p.field[f])
  ELSE SetField(p, f, "candidate", "none")

(* stateChange() to 'deactivating': unsaved changes are asked about first. *)
Deactivate(p, e, why) ==
  LET invalid == FieldsIn(p, e, {"invalid"})
  IN IF /\ FieldsIn(p, e, {"changed", "invalid"}) \union Kept(p, e) # {}
        /\ why \notin {"saved", "confirmed"}
     THEN Defer([p EXCEPT !.entity[e] = "opened"], Task("confirm", e))
     ELSE FoldLeft(LAMBDA q, f : SendToCandidate(q, e, f),
            IF ~AcceptsSet(p, e) THEN p
            ELSE [p EXCEPT !.reload = IF Kept(p, e) \union invalid # {}
                                      THEN @ \union {e} ELSE @ \ {e}],
            FieldsOf[e])

(* entityModel.set('state', 'deactivating').                               *)
SetDeactivating(p, e, why) ==
  IF /\ p.entity[e] # "deactivating"
     /\ AcceptsState(p, e, "deactivating", why, {})
     /\ AcceptsSet(p, e)
  THEN Deactivate([p EXCEPT !.entity[e] = "deactivating"], e, why)
  ELSE p

(* stateChange() to 'opened', and enforceSingleActiveEntity().             *)
Open(p, e) ==
  IF e \in p.isActive \/ ~AcceptsSet(p, e) THEN p
  ELSE LET q == [p EXCEPT !.isActive = @ \union {e}]
       IN FoldLeft(LAMBDA r, x : SetDeactivating(r, x, "none"), q,
                   Keep(PageOrder, q.isActive \ {e}))

(* stateChange() and appStateChange() to 'closed'.                         *)
Close(p, e) ==
  FoldLeft(TeardownEditor,
           [p EXCEPT !.isActive = @ \ {e}, !.inTempStore = @ \ {e}, !.isDirty = @ \ {e}],
           FieldsOf[e])

(* Mutation: the fields become candidates when their editors are set up.   *)
LaunchAtOnce(p, e) ==
  Defer(SetEach(FoldLeft(SetupEditor, p, FieldsOf[e]), FieldsOf[e], "candidate", "none"),
        EntityTask(e, "opening", {}))

(* appStateChange() to 'launching'.                                        *)
Launch(p, e) ==
  Defer(FoldLeft(SetupEditor, [p EXCEPT !.reloadPage = FALSE], FieldsOf[e]),
        EntityTask(e, "opening", {}))

(* EntityModel.stateChange(), then AppView.appStateChange().               *)
EnterEntity(p, e, to, why) ==
  LET q == [p EXCEPT !.entity[e] = to] IN
  CASE to = "closed"       -> Close(q, e)
    [] to = "launching"    -> Launch(q, e)
    [] to = "opening"      -> SetEach(q, FieldsOf[e], "candidate", "none")
    [] to = "opened"       -> Open(q, e)
    [] to = "committing"   -> Commit(q, e)
    [] to = "deactivating" -> Deactivate(q, e, why)
    [] to = "closing"      -> SetEach(q, FieldsOf[e], "inactive", "stop")

(* entityModel.set('state', to) with the field states it requires.         *)
SetEntity(p, e, to, why, ready) ==
  IF p.entity[e] # to /\ AcceptsState(p, e, to, why, ready) /\ AcceptsSet(p, e)
  THEN EnterEntity(p, e, to, why)
  ELSE p

=============================================================================
