-------------------------------- MODULE Ajax --------------------------------
(***************************************************************************)
(* The Ajax framework of core/misc/ajax.js: Ajax objects bound to elements *)
(* of a page, the requests they send, and the answers, lists of commands,  *)
(* that change the page, and with it the elements whose requests are still *)
(* out.                                                                    *)
(*                                                                         *)
(* A thing on the page has a name, its id in the markup.  Markup that is   *)
(* replaced is gone: what comes in its place has the same names, and is    *)
(* another copy, with Ajax objects of its own.  JavaScript runs a handler  *)
(* to its end, so the operators take the page and return the page after    *)
(* the call, and one handler is one action.                                *)
(*                                                                         *)
(* The behaviours other than AJAX are taken together: a thing is attached, *)
(* detached, or "serialized" (detached for a form to be sent, to be        *)
(* attached again by the handlers of the answer).                          *)
(***************************************************************************)
EXTENDS Integers, FiniteSets

CONSTANTS
    Name,       \* the things on the page
    Within,     \* Within[n]: what n's markup contains, n included
    Form,       \* the name of the form
    Element,    \* the names that are Ajax elements
    Link,       \* ... those bound for their class use-ajax, by no settings
    Wrapper,    \* Wrapper[e]: what the answers to e put new content in
    Troubles,   \* the sets of troubles that a page may have, see Init
    MaxCopies   \* bound: how often the markup of a name is made

ASSUME PageAssumption ==
  /\ Element \subseteq Name /\ Link \subseteq Element /\ Form \in Name \ Element
  /\ Within \in [Name -> SUBSET Name]
  /\ \A n \in Name : n \in Within[n] /\ \A m \in Within[n] : Within[m] \subseteq Within[n]
  /\ \A e \in Element : Within[e] \subseteq Element
  /\ Link \cap Within[Form] = {}
  /\ Wrapper \in [Element -> Name \ Element]
  /\ MaxCopies \in Nat \ {0}

Copy   == Element \X (1..MaxCopies)
NoCopy == <<>>

VARIABLES page, trouble

vars == <<page, trouble>>

(* The page:                                                               *)
(*   document, last   the copy of a name in the document (0: none), and    *)
(*                    the last one made                                    *)
(*   behaviour        of the copy in the document                          *)
(*   bound            the Ajax objects bound to the copy in the document   *)
(*   instances        Drupal.ajax.instances without what is null           *)
(*   settings         drupalSettings.ajax: the settings object for a name, *)
(*                    called by the copy it was first sent for             *)
(*   object, form     of an Ajax object: its settings object, $form        *)
(*   progress         progress.element and .object of a settings object    *)
(*   shown            the indicators on the page: fullscreen ones, or bars *)
(*                    that ask the server for the progress                 *)
(*   ajaxing, disabled, flight  of an Ajax object: the flag, the element's *)
(*                    property, the requests that are out                  *)

----------------------------------------------------------------------------
(* Behaviours.                                                             *)

Present(p) == {n \in Name : p.document[n] # 0}
InDocument(p, c) == p.document[c[1]] = c[2]
Current(p, e) == <<e, p.document[e]>>

(* Mutation: an object is expired as soon as its element is disabled.       *)
ExpiredOrDisabled(p) == {c \in p.instances : ~InDocument(p, c) \/ c \in p.disabled}

(* Drupal.ajax.expired(): the elements are not in the document any more.   *)
Expired(p) == {c \in p.instances : ~InDocument(p, c)}

(* Mutation: without once().                                               *)
AnyElement(p, e) == p.bound[e] < 2

(* once(): the elements that have no Ajax object yet.                      *)
NotBound(p, e) == p.bound[e] = 0

(* Drupal.behaviors.AJAX.attach() looks at the whole document, whatever    *)
(* the context: every element that has settings or the class of a link.    *)
AttachAjax(p) ==
  LET new == {e \in Element \cap Present(p) :
                NotBound(p, e) /\ (e \in Link \/ p.settings[e] # NoCopy)}
      made == {Current(p, e) : e \in new}
  IN [p EXCEPT
       !.bound     = [e \in Element |-> IF e \in new THEN @[e] + 1 ELSE @[e]],
       !.instances = @ \union made,
       !.object    = [c \in Copy |-> IF c \notin made THEN @[c]
                        ELSE IF c[1] \in Link THEN c ELSE p.settings[c[1]]],
       !.form      = [c \in Copy |-> IF c \notin made THEN @[c]
                        ELSE IF c[1] \in Within[Form] THEN p.document[Form] ELSE 0]]

AttachBehaviors(p, context) ==
  AttachAjax([p EXCEPT !.behaviour = [n \in Name |->
                 IF n \in context \cap Present(p) THEN "attached" ELSE @[n]]])

DetachBehaviors(p, context, trigger) ==
  [p EXCEPT
    !.behaviour = [n \in Name |->
        IF n \notin context \cap Present(p) THEN @[n]
        ELSE IF trigger = "unload" THEN "detached" ELSE "serialized"],
    !.instances = IF trigger = "unload" THEN @ \ Expired(p) ELSE @]

HasForm(p, c) == p.form[c] # 0 /\ p.form[c] = p.document[Form]

AttachForm(p, c) == IF HasForm(p, c) THEN AttachBehaviors(p, Within[Form]) ELSE p

----------------------------------------------------------------------------
(* Sending a request.                                                      *)

BeforeSerialize(p, c) ==
  IF HasForm(p, c) THEN DetachBehaviors(p, Within[Form], "serialize") ELSE p

(* The indicator is kept in the settings' progress: $.extend() copies no   *)
(* deeper than the settings themselves.                                    *)
SetProgressIndicator(p, c) ==
  [p EXCEPT !.shown = @ \union {c}, !.progress[p.object[c]] = c]

BeforeSend(p, c) ==
  SetProgressIndicator([p EXCEPT !.ajaxing  = @ \union {c},
                                 !.disabled = @ \union {c},
                                 !.flight[c] = @ + 1], c)

(* Mutation: "Do not perform another Ajax command" is not asked.           *)
MaySendAgain(p, c) == p.flight[c] < 2

MaySend(p, c) == c \notin p.ajaxing

(* eventResponse(), by mouse or key, and execute(): a disabled element of  *)
(* a form gets no events, a link does.                                     *)
EventResponse(e) ==
  LET c == Current(page, e) IN
    /\ e \in Present(page) /\ page.bound[e] > 0
    /\ e \in Within[Form] => c \notin page.disabled
    /\ MaySend(page, c)
    /\ page' = BeforeSend(BeforeSerialize(page, c), c)
    /\ UNCHANGED trouble
----------------------------------------------------------------------------
(* Handling an answer.                                                     *)

(* Mutation: an element that cannot be pressed any more is not enabled.    *)
RemoveIndicatorOnly(p, c) == [p EXCEPT !.shown = @ \ {p.progress[p.object[c]]}]

(* The first lines of success() and of error().                            *)
RemoveIndicator(p, c) ==
  [p EXCEPT !.shown = @ \ {p.progress[p.object[c]]}, !.disabled = @ \ {c}]

NextCopy(p, n) == p.last[n] + 1

(* The settings command, which AjaxResponseAttachmentsProcessor puts first:*)
(* the settings of expired Ajax objects go, those of new content come.  An *)
(* element of the same id (trouble "same id") has the same settings object.*)
Settings(p, content) ==
  LET gone == {c[1] : c \in Expired(p)} IN
    [p EXCEPT !.settings = [e \in Element |->
       IF e \in content \ Link
       THEN IF "same id" \in trouble /\ e \notin gone /\ @[e] # NoCopy
            THEN @[e] ELSE <<e, NextCopy(p, e)>>
       ELSE IF "same id" \in trouble /\ e \in gone THEN NoCopy ELSE @[e]]]

Replace(p, target, content) ==
  LET place(n) == IF n \in content THEN NextCopy(p, n)
                  ELSE IF n \in Within[target] THEN 0 ELSE p.document[n]
  IN [p EXCEPT !.document = [n \in Name |-> place(n)],
               !.last = [n \in Name |-> IF n \in content THEN NextCopy(p, n) ELSE @[n]],
               !.behaviour = [n \in Name |-> IF n \in Within[target] THEN "detached" ELSE @[n]],
               !.bound = [e \in Element |-> IF e \in Within[target] THEN 0 ELSE @[e]]]

(* The insert command, replacing: when nothing has the id of the wrapper,  *)
(* behaviours are detached from the default context, the document.         *)
Insert(p, target, content) ==
  IF target \notin Present(p) THEN DetachBehaviors(p, Name, "unload")
  ELSE AttachBehaviors(
         Replace(DetachBehaviors(p, Within[target], "unload"), target, content), content)

(* The remove command.                                                     *)
Remove(p, target) ==
  IF target \notin Present(p) THEN p
  ELSE Replace(DetachBehaviors(p, Within[target], "unload"), target, {})

(* The commands of an answer: new content with its settings, an element    *)
(* removed, or others that neither add nor remove elements.                *)
Contents(e) ==
  {content \in SUBSET Within[Wrapper[e]] :
     /\ "no wrapper" \notin trouble => Within[Wrapper[e]] \ Element \subseteq content
     /\ \A n \in content : page.last[n] < MaxCopies}

Commands(p, e) ==
  {p} \union {Insert(Settings(p, content), Wrapper[e], content) : content \in Contents(e)}
      \union {Remove(p, n) : n \in Element \ Link}

(* jQuery: the request is over.                                            *)
Over(p, c) == [p EXCEPT !.flight[c] = @ - 1]

(* complete().                                                             *)
Complete(p, c) == [p EXCEPT !.ajaxing = @ \ {c}]

(* success().                                                              *)
Success(c) ==
  /\ page.flight[c] > 0
  /\ \E done \in Commands(RemoveIndicator(page, c), c[1]) :
       page' = Over(Complete(AttachForm(done, c), c), c)
  /\ UNCHANGED trouble

(* Mutation: behaviours are not attached again.                            *)
ErrorOnly(p, c) == RemoveIndicator(p, c)

(* error(), which throws an AjaxError in the end.                          *)
Error(p, c) == AttachForm(RemoveIndicator(p, c), c)

(* The request failed: complete() calls error().  It does not where jQuery *)
(* gives `timeout' or `abort' for status; nothing in the repository sets a *)
(* timeout for, or aborts, a request of an Ajax object.                    *)
Failure(c) ==
  /\ page.flight[c] > 0
  /\ page' = Over(Error(Complete(page, c), c), c)
  /\ UNCHANGED trouble

(* An answer that a link may not trust, without the token: error() throws  *)
(* out of jQuery's done(), and nobody calls complete().                    *)
Unverified(c) ==
  /\ page.flight[c] > 0 /\ c[1] \in Link
  /\ "not verified" \in trouble
  /\ page' = Over(Error(page, c), c)
  /\ UNCHANGED trouble

(* So does a command that throws, and those after it are not run.          *)
CommandThrows(c) ==
  /\ page.flight[c] > 0
  /\ "throws" \in trouble
  /\ \E done \in Commands(RemoveIndicator(page, c), c[1]) : page' = Over(done, c)
  /\ UNCHANGED trouble

----------------------------------------------------------------------------
(* A page that was loaded: behaviours are attached to the document.  Its   *)
(* troubles: "same id", the server gives an element that it sends again the*)
(* id it had; "no wrapper", new content may lack the wrappers that it had; *)
(* "not verified", answers may lack the token that links ask for;          *)
(* "throws", commands may throw.                                           *)
Init ==
  /\ trouble \in Troubles
  /\ page = AttachBehaviors(
       [document  |-> [n \in Name |-> 1], last |-> [n \in Name |-> 1],
        behaviour |-> [n \in Name |-> "detached"],
        bound     |-> [e \in Element |-> 0], instances |-> {},
        settings  |-> [e \in Element |-> IF e \in Link THEN NoCopy ELSE <<e, 1>>],
        object    |-> [c \in Copy |-> NoCopy], form |-> [c \in Copy |-> 0],
        progress  |-> [c \in Copy |-> NoCopy],
        shown     |-> {}, ajaxing |-> {}, disabled |-> {},
        flight    |-> [c \in Copy |-> 0]], Name)

Answer(c) == Success(c) \/ Failure(c) \/ Unverified(c) \/ CommandThrows(c)

Next ==
  \/ \E e \in Element : EventResponse(e)
  \/ \E c \in Copy : Answer(c)

Spec == Init /\ [][Next]_vars

----------------------------------------------------------------------------
(* The types of the page's parts; an Ajax object that was made keeps its   *)
(* settings object, and only such a one is sent for or marked.             *)
TypeOK ==
  /\ page.document \in [Name -> 0..MaxCopies] /\ page.last \in [Name -> 1..MaxCopies]
  /\ page.behaviour \in [Name -> {"attached", "serialized", "detached"}]
  /\ page.bound \in [Element -> 0..1]
  /\ page.settings \in [Element -> Copy \union {NoCopy}]
  /\ page.object \in [Copy -> Copy \union {NoCopy}]
  /\ page.form \in [Copy -> 0..MaxCopies]
  /\ page.progress \in [Copy -> Copy \union {NoCopy}]
  /\ page.flight \in [Copy -> 0..2]
  /\ page.instances \union page.shown \union page.ajaxing \union page.disabled
       \subseteq {c \in Copy : page.object[c] # NoCopy}
  /\ trouble \in Troubles

InFlight == {c \in Copy : page.flight[c] > 0}

(* However presses and answers interleave, and whatever an answer does to  *)
(* the elements of requests that are out: an Ajax object has one request   *)
(* at a time ("Do not perform another Ajax command if one is already in    *)
(* progress"), and refuses another only while it has ("the ajax.ajaxing    *)
(* flag ... unset during the complete response").                          *)
OneRequest ==
  /\ \A c \in Copy : page.flight[c] < 2
  /\ InFlight \subseteq page.ajaxing
  /\ trouble \cap {"not verified", "throws"} = {} => page.ajaxing \subseteq InFlight

(* "Re-enable the element" and "remove the progress element": nothing in   *)
(* the document stays disabled when its request is over, whichever way it  *)
(* ended, and an indicator is on the page, and a progress bar asks the     *)
(* server, exactly while the request it belongs to is out.                 *)
NothingLeftBehind ==
  /\ page.disabled \subseteq InFlight
  /\ "same id" \notin trouble => page.shown = InFlight

(* Behaviours that beforeSerialize() detached are attached again once the  *)
(* form's last request is over, also after an error and after answers that *)
(* replaced a part of the form, or all of it, under a request that is out; *)
(* and new content has its behaviours.                                     *)
BehavioursAttached ==
  trouble \cap {"no wrapper", "throws"} = {} =>
    \A n \in Present(page) :
      \/ page.behaviour[n] = "attached"
      \/ /\ page.behaviour[n] = "serialized"
         /\ n \in Within[Form]
         /\ \E c \in InFlight : HasForm(page, c)

(* 'unload' means "The context element is being removed from the DOM"      *)
(* (drupal.es6.js:194): what stays in the document keeps its behaviours.   *)
(* It does not hold with the trouble "no wrapper": README, section 5.      *)
UnloadedOnlyWhenRemoved ==
  \A n \in Present(page) : page.behaviour[n] # "detached"

(* Every Ajax element of the document has one Ajax object, which is listed *)
(* (detach() may null only expired ones); and the list does not grow with  *)
(* the answers: it has at most one expired object for a name.              *)
BoundOnce ==
  /\ \A e \in Element \cap Present(page) :
       page.bound[e] = 1 /\ Current(page, e) \in page.instances
  /\ \A c, d \in Expired(page) : c[1] = d[1] => c = d
=============================================================================
