------------------------------- MODULE QuickEdit -------------------------------
(***************************************************************************)
(* In-place editing: the user, the browser's event loop, the network and   *)
(* the private temporary store of the server around the models of          *)
(* QuickEditModels.  A step is one task of the event loop: an event of the *)
(* user, one deferred callback, or the answer to one request.  Deferred    *)
(* callbacks run in the order they were deferred; events and answers come  *)
(* between any two of them, answers in any order.                          *)
(*                                                                         *)
(* All entities of PageOrder show the same content: PrivateTempStore has   *)
(* one copy for all of them.  "held" is the set of fields whose changed    *)
(* value is in that copy, "copied" whether there is one.                   *)
(***************************************************************************)
EXTENDS QuickEditModels

CONSTANTS
    FieldOf,       \* FieldOf[f]: the field of the content that f is an instance of
    ContentOf,     \* ContentOf[e]: the content that e is an instance of
    Troubles,      \* which troubles come together: a set of sets of Trouble
    Revisits,      \* a user may edit an entity again after saving it
    MaxDeferred,   \* bound: the user acts only while fewer callbacks wait
    MaxRequests    \* bound: the user acts only while fewer requests are out

(* A hasty user acts while callbacks or requests are pending, the server   *)
(* refuses values as invalid, requests fail, the answer to the save of an  *)
(* entity is lost.                                                         *)
Trouble == {"hasty", "invalid", "failure", "lost"}

ASSUME UserAssumption ==
  /\ Troubles \subseteq SUBSET Trouble /\ Revisits \in BOOLEAN
  /\ MaxDeferred \in Nat \ {0} /\ MaxRequests \in Nat \ {0}

VARIABLES page, copied, held, trouble

vars == <<page, copied, held, trouble>>

(* A page that was just loaded.                                            *)
FreshPage ==
  [entity |-> [e \in Entity |-> "closed"], isActive |-> {}, isDirty |-> {},
   isCommitting |-> {}, inTempStore |-> {}, reload |-> {}, reloadPage |-> FALSE,
   sharedKept |-> {}, owns |-> {}, kept |-> [e \in Entity |-> {}],
   field |-> [f \in Field |-> "inactive"], editor |-> {},
   form |-> [f \in Field |-> "none"], typed |-> {},
   highlightedField |-> NoField, activeField |-> NoField, modal |-> NoEntity,
   deferred |-> <<>>, requests |-> {}, thrown |-> {}]

Init == page = FreshPage /\ copied = {} /\ held = {} /\ trouble \in Troubles

AtRest == page.deferred = <<>> /\ page.requests = {}

(* The user can act: no modal covers the page.                             *)
Hands ==
  /\ page.modal = NoEntity
  /\ "hasty" \in trouble \/ AtRest
  /\ Len(page.deferred) < MaxDeferred
  /\ Cardinality(page.requests) < MaxRequests

Stored == UNCHANGED <<copied, held, trouble>>

----------------------------------------------------------------------------
(* The user.                                                               *)

(* The contextual link "Quick edit", hidden while the entity is active.    *)
QuickEditLink(e) ==
  /\ Hands
  /\ e \notin page.isActive
  /\ Revisits \/ Kept(page, e) = {}
  /\ page' = SetEntity(page, e, "launching", "none", {})
  /\ Stored

(* FieldDecorationView: the pointer enters or leaves a field, or clicks it.*)
MouseEnter(f) ==
  Hands /\ f \in page.editor /\ page' = SetField(page, f, "highlighted", "none") /\ Stored

MouseLeave(f) ==
  Hands /\ f \in page.editor /\ page' = SetField(page, f, "candidate", "mouseleave") /\ Stored

Click(f) ==
  Hands /\ f \in page.editor /\ page' = SetField(page, f, "activating", "none") /\ Stored

(* The element of a field, or its form, accepts input.                     *)
Editable(f) ==
  IF EditorOf[f] = "form" THEN page.form[f] = "loaded"
  ELSE page.field[f] \in {"active"} \union Changed

(* A change in the editor of f.                                            *)
Type(f) ==
  /\ Hands
  /\ f \in page.editor
  /\ Editable(f)
  /\ LET to == IF EditorOf[f] = "form" /\ page.field[f] = "invalid"
               THEN "activating" ELSE "changed"
     IN page' = SetField([page EXCEPT !.typed = @ \union {f}], f, to, "none")
  /\ Stored

(* EntityToolbarView: Save is shown once the entity is dirty.              *)
ClickSave(e) ==
  /\ Hands
  /\ e \in page.isActive /\ e \in page.isDirty
  /\ page.entity[e] = "opened"
  /\ page' = SetEntity(page, e, "committing", "none", {})
  /\ Stored

ClickClose(e) ==
  Hands /\ e \in page.isActive /\ page' = SetEntity(page, e, "deactivating", "none", {}) /\ Stored

(* The modal of confirmEntityDeactivation(): Save or Discard changes.      *)
ModalSave ==
  /\ page.modal # NoEntity
  /\ page' = SetEntity([page EXCEPT !.modal = NoEntity], page.modal, "committing",
                       "confirmed", {})
  /\ Stored

ModalDiscard ==
  /\ page.modal # NoEntity
  /\ LET e == page.modal
         q == SetEntity([page EXCEPT !.modal = NoEntity], e, "deactivating", "confirmed", {})
     IN page' = IF e \in q.reload /\ AcceptsSet(q, e)
                THEN [q EXCEPT !.reloadPage = TRUE, !.reload = @ \ {e}]
                ELSE IF e \in q.reload THEN [q EXCEPT !.reloadPage = TRUE] ELSE q
  /\ Stored

----------------------------------------------------------------------------
(* The event loop: the oldest deferred callback.                           *)

(* A reload of the page, which an entity that closes may ask for, begins   *)
(* with a fresh page; answers to the old page are lost.                    *)
Reloaded(p) ==
  IF p.reloadPage /\ \E e \in Entity : page.entity[e] # "closed" /\ p.entity[e] = "closed"
  THEN FreshPage ELSE p

(* confirmEntityDeactivation(): one modal at a time.                       *)
AskToConfirm(p, e) == IF p.modal # NoEntity THEN p ELSE [p EXCEPT !.modal = e]

RunDeferred ==
  /\ page.deferred # <<>>
  /\ LET t == Head(page.deferred)
         p == [page EXCEPT !.deferred = Tail(@)]
     IN page' =
          CASE t.do = "entity"  -> Reloaded(SetEntity(p, t.e, t.to, "none", t.ready))
            [] t.do = "field"   -> SetField(p, t.f, t.to, "none")
            [] t.do = "invalid" -> SetEntity(p, t.x, "opened", "invalid", {})
            [] t.do = "confirm" -> AskToConfirm(p, t.x)
            [] t.do = "html"    -> SetHtml(p, t.x)
            [] t.do = "rerender" -> Defer(SetField(p, t.x, "candidate", "none"),
                                          Task("replace", t.x))
            [] t.do = "replace" -> RenderField(SetField(p, t.x, "inactive", "rerender"), t.x)
  /\ Stored

----------------------------------------------------------------------------
(* The server and the network.                                             *)

Answered(r) == [page EXCEPT !.requests = @ \ {r}]

(* The content a request is about, and the fields of it.                   *)
Content(r) == ContentOf[IF r.kind = "entity" THEN r.x ELSE EntityOf(r.x)]

FieldsHeld(c) == {FieldOf[f] : f \in {f \in Field : ContentOf[EntityOf(f)] = c}}

(* QuickEditController::fieldForm() without a submission: the copy is made *)
(* anew when it is missing or the request resets it.                       *)
LoadForm(r) ==
  /\ copied' = copied \union {Content(r)}
  /\ held' = IF Content(r) \in copied /\ ~r.reset THEN held ELSE held \ FieldsHeld(Content(r))
  /\ UNCHANGED trouble

(* The form of a field for the form editor: it is put into the page and    *)
(* the field becomes active.                                               *)
FormLoaded(r) ==
  /\ r \in page.requests /\ r.kind = "load"
  /\ LoadForm(r)
  /\ page' = CASE r.of = "destroyed" -> Answered(r)
               [] r.of = "removed"   -> SetField(Answered(r), r.x, "active", "none")
               [] r.of = "current"   ->
                    SetField([Answered(r) EXCEPT !.form[r.x] = "loaded"], r.x, "active", "none")

(* The form that EditorView.save() hides in the page: it is filled with    *)
(* the value of the editor as it is now, and submitted.                    *)
BackstageLoaded(r) ==
  /\ r \in page.requests /\ r.kind = "backstage"
  /\ LoadForm(r)
  /\ page' = IF r.of = "destroyed" THEN Answered(r)
             ELSE Send([Answered(r) EXCEPT !.typed = @ \ {r.x}], "submit", r.x, FALSE)

(* The text without its filters, for the text editor.                      *)
TextLoaded(r) ==
  /\ r \in page.requests /\ r.kind = "text"
  /\ page' = IF r.of = "destroyed" THEN Answered(r)
             ELSE SetField(Answered(r), r.x, "active", "none")
  /\ Stored

(* fieldForm() with a submission: a valid value goes to the copy.          *)
Submit(r) ==
  /\ copied' = copied \union {Content(r)}
  /\ held' = (IF Content(r) \in copied THEN held ELSE held \ FieldsHeld(Content(r)))
                \union {FieldOf[r.x]}
  /\ UNCHANGED trouble

(* quickeditFieldFormSaved: first 'saved', then the new HTML, deferred by  *)
(* the form editor.                                                        *)
FieldSaved(r) ==
  /\ r \in page.requests /\ r.kind = "submit"
  /\ Submit(r)
  /\ LET p == SetField(Answered(r), r.x, "saved", "none")
     IN page' = CASE r.of = "destroyed" -> Answered(r)
                  [] r.of # "destroyed" /\ EditorOf[r.x] = "form" -> Defer(p, Task("html", r.x))
                  [] OTHER -> SetHtml(p, r.x)

(* quickeditFieldFormValidationErrors.                                     *)

FieldInvalid(r) ==
  /\ r \in page.requests /\ r.kind = "submit"
  /\ "invalid" \in trouble
  /\ LoadForm(r)
  /\ page' = IF r.of = "destroyed" THEN Answered(r)
             ELSE SetField(Answered(r), r.x, "invalid", "none")

(* QuickEditController::entitySave(): the copy is saved, then deleted.     *)
EntitySave(r) ==
  /\ Content(r) \in copied
  /\ copied' = copied \ {Content(r)} /\ held' = held \ FieldsHeld(Content(r))
  /\ UNCHANGED trouble

(* quickeditEntitySaved: what EntityModel.save() clears is refused while   *)
(* isCommitting is TRUE; the success callback is not validated.            *)
EntitySaved(r) ==
  /\ r \in page.requests /\ r.kind = "entity"
  /\ EntitySave(r)
  /\ LET e == r.x
         cleared == IF ~AcceptsSet(page, e) THEN Answered(r)
                    ELSE [Answered(r) EXCEPT !.inTempStore = @ \ {e},
                                             !.owns = @ \union {e}, !.kept[e] = {}]
     IN page' = EnterEntity([cleared EXCEPT !.isCommitting = @ \ {e}], e,
                            "deactivating", "saved")

(* The page hears that the entity was not saved: the request failed, or    *)
(* there was no copy to save, or the server did save and delete the copy,  *)
(* and its answer was lost.                                                *)
EntityNotSaved(r) ==
  /\ r \in page.requests /\ r.kind = "entity"
  /\ \/ Stored /\ ("failure" \in trouble \/ Content(r) \notin copied)
     \/ EntitySave(r) /\ "lost" \in trouble
  /\ page' = SetEntity([Answered(r) EXCEPT !.isCommitting = @ \ {r.x}], r.x,
                       "opened", "networkerror", {})

(* A form that could not be loaded: the active field goes to candidate.    *)
(* The server may have handled the request before its answer was lost.     *)
FormNotLoaded(r) ==
  /\ "failure" \in trouble
  /\ r \in page.requests /\ r.kind \in {"load", "backstage"}
  /\ page' = IF page.activeField \in {NoField, Destroyed} THEN Answered(r)
             ELSE SetField(Answered(r), page.activeField, "candidate", "none")
  /\ Stored \/ LoadForm(r)

(* Nobody handles the failure of a submission or of the text editor's      *)
(* request.  The server may have handled a submission whose answer is lost.*)
AnswerLost(r) ==
  /\ "failure" \in trouble
  /\ r \in page.requests /\ r.kind \in {"submit", "text"}
  /\ page' = Answered(r)
  /\ \/ Stored
     \/ r.kind = "submit" /\ (Submit(r) \/ ("invalid" \in trouble /\ LoadForm(r)))

----------------------------------------------------------------------------

User ==
  \/ \E e \in Entity : QuickEditLink(e) \/ ClickSave(e) \/ ClickClose(e)
  \/ \E f \in Field : MouseEnter(f) \/ MouseLeave(f) \/ Click(f) \/ Type(f)
  \/ ModalSave
  \/ ModalDiscard

Answer ==
  \E r \in page.requests :
    \/ FormLoaded(r) \/ BackstageLoaded(r) \/ TextLoaded(r)
    \/ FieldSaved(r) \/ FieldInvalid(r)
    \/ EntitySaved(r) \/ EntityNotSaved(r)
    \/ FormNotLoaded(r) \/ AnswerLost(r)

Next == User \/ RunDeferred \/ Answer

Spec == Init /\ [][Next]_vars

(* The event loop runs every callback, the server or the network answers   *)
(* every request in the end: weak fairness of RunDeferred and of Answer,   *)
(* written with what enables them.                                         *)
FairSpec ==
  /\ Spec
  /\ []<>(page.deferred = <<>>) \/ []<><<RunDeferred>>_vars
  /\ []<>(page.requests = {}) \/ []<><<Answer>>_vars

----------------------------------------------------------------------------
(* The types of the page's parts; a form is on the page only for a field   *)
(* whose form editor is set up (teardownEditor() leaves none behind).      *)
TypeOK ==
  /\ page.entity \in [Entity -> ToSet(EntityStates)]
  /\ page.field \in [Field -> ToSet(FieldStates)]
  /\ page.isActive \union page.isDirty \union page.isCommitting \union page.inTempStore
       \union page.reload \union page.owns \subseteq Entity
  /\ page.reloadPage \in BOOLEAN
  /\ page.kept \in [Entity -> SUBSET Field]
  /\ page.sharedKept \union page.editor \union page.typed \subseteq Field
  /\ page.highlightedField \in Field \union {NoField, Destroyed}
  /\ page.activeField \in Field \union {NoField, Destroyed}
  /\ page.modal \in Entity \union {NoEntity}
  /\ page.form \in [Field -> {"none", "loading", "loaded"}]
  /\ \A f \in Field : page.form[f] # "none" => f \in page.editor /\ EditorOf[f] = "form"
  /\ \A r \in page.requests :
       /\ r.kind \in {"load", "submit", "backstage", "text", "entity"}
       /\ r.x \in IF r.kind = "entity" THEN Entity ELSE Field
  /\ copied \subseteq {ContentOf[e] : e \in Entity}
  /\ held \subseteq {FieldOf[f] : f \in Field}
  /\ trouble \in Troubles

(* isCommitting is a mutex: however the user clicks and in whatever order  *)
(* answers come, at most one request to save an entity is out, and one is  *)
(* out exactly while the entity is marked (EntityModel.validate()).        *)
OneCommit ==
  \A e \in Entity :
    Cardinality({r \in page.requests : r.kind = "entity" /\ r.x = e})
      = IF e \in page.isCommitting THEN 1 ELSE 0

(* While a request to save an entity is out, the server has the copy that  *)
(* it is about to save (the comment in QuickEditController::entitySave()): *)
(* otherwise save() would be called on nothing.  It is not so once the     *)
(* answer to a save was lost: the user is asked to save once more (README, *)
(* section 5).                                                             *)
CopyExists ==
  "lost" \notin trouble =>
    \A r \in page.requests : r.kind = "entity" => Content(r) \in copied

(* FieldModel.destroy() never throws: a field is replaced by its rerendered*)
(* version only when it is inactive; and no form editor saves a form that  *)
(* is no longer there.                                                     *)
NothingThrown == page.thrown = {}

(* "Ensure only one field (editor) at a time is active": the one the       *)
(* application knows as the active one (AppView.editorStateChange()).      *)
OneActiveField ==
  trouble = {} => \A f \in Field : page.field[f] \in Active => page.activeField = f

(* "Fields can't change state while the entity is closed or still          *)
(* launching" (EntityModel.fieldStateChange()): they are all inactive.     *)
QuietWhenClosed ==
  trouble = {} => \A e \in Entity : page.entity[e] \in {"closed", "launching"}
                => FieldsIn(page, e, {"inactive"}) = ToSet(FieldsOf[e])

(* An entity is saved only when everything the user has typed into its     *)
(* fields was sent to the server before.                                   *)
NothingUnsaved ==
  trouble = {} => \A r \in page.requests :
               r.kind = "entity" => page.typed \cap ToSet(FieldsOf[r.x]) = {}

(* Every change of an entity's state comes to an end: launching leads to   *)
(* an opened entity, the rest to an opened or closed one.  Each step waits *)
(* for the fields to tell the entity that they are ready.                  *)
(* And an entity that is being saved is saved and closed.                  *)
TransitionsEnd ==
  \A e \in Entity :
    /\ trouble = {} /\ page.entity[e] \notin {"opened", "closed"} ~> page.entity[e] \in {"opened", "closed"}
    /\ trouble = {} /\ page.entity[e] = "committing" ~> page.entity[e] = "closed"
=============================================================================
