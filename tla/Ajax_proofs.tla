----------------------------- MODULE Ajax_proofs -----------------------------
(***************************************************************************)
(* Proofs about Ajax, for every page: any elements, links, wrappers and    *)
(* troubles, and any number of requests and answers.  An operator of Ajax  *)
(* takes a page and returns one; a lemma says what it does to a page, and  *)
(* a step of the specification composes them.                              *)
(***************************************************************************)
EXTENDS Ajax, TLAPS

Copies == Copy \union {NoCopy}

PageType ==
  [document : [Name -> 0..MaxCopies], last : [Name -> 1..MaxCopies],
   behaviour : [Name -> {"attached", "serialized", "detached"}],
   bound : [Element -> 0..1], instances : SUBSET Copy,
   settings : [Element -> Copies], object : [Copy -> Copies],
   form : [Copy -> 0..MaxCopies], progress : [Copy -> Copies],
   shown : SUBSET Copy, ajaxing : SUBSET Copy, disabled : SUBSET Copy,
   flight : [Copy -> 0..2]]

LEMMA CopyParts ==
  /\ \A c \in Copy : c[1] \in Element /\ c[2] \in 1..MaxCopies /\ c = <<c[1], c[2]>>
  /\ \A e \in Element, k \in 1..MaxCopies :
       <<e, k>> \in Copy /\ <<e, k>>[1] = e /\ <<e, k>>[2] = k
  /\ NoCopy \notin Copy
BY DEF Copy, NoCopy

LEMMA ElementIsName == Element \subseteq Name /\ Form \in Name
BY PageAssumption

(* The troubles of the page.                                               *)
SameId    == "same id" \in trouble
NoWrapper == "no wrapper" \in trouble

(* Every answer comes to complete().                                       *)
AllComplete == trouble \cap {"not verified", "throws"} = {}

SameMarkup(p, q)   == q.document = p.document /\ q.last = p.last
SameObjects(p, q)  == /\ q.bound = p.bound /\ q.instances = p.instances
                      /\ q.object = p.object /\ q.form = p.form
SameRequests(p, q) == /\ q.shown = p.shown /\ q.ajaxing = p.ajaxing
                      /\ q.disabled = p.disabled /\ q.flight = p.flight
                      /\ q.progress = p.progress

-----------------------------------------------------------------------------
(* What the operators do.                                                  *)

(* The elements that attach() binds, and the objects it makes for them.    *)
New(p) == {e \in Element \cap Present(p) :
             NotBound(p, e) /\ (e \in Link \/ p.settings[e] # NoCopy)}
Made(p) == {Current(p, e) : e \in New(p)}

LEMMA MadeCopies ==
  ASSUME NEW p \in PageType
  PROVE  /\ Made(p) \subseteq Copy
         /\ \A c \in Made(p) : /\ c[1] \in New(p) /\ InDocument(p, c)
                               /\ c[1] \in Link \/ p.settings[c[1]] # NoCopy
<1> SUFFICES ASSUME NEW e \in New(p), NEW c, c = Current(p, e)
             PROVE  /\ c \in Copy /\ c[1] = e /\ InDocument(p, c)
                    /\ e \in Link \/ p.settings[e] # NoCopy
  BY DEF Made
<1>1. e \in Element /\ p.document[e] \in 0..MaxCopies /\ p.document[e] # 0
  BY ElementIsName DEF New, Present, PageType
<1>2. p.document[e] \in 1..MaxCopies
  BY <1>1, PageAssumption
<1>3. c \in Copy /\ c[1] = e /\ c[2] = p.document[e]
  BY <1>1, <1>2, CopyParts DEF Current
<1> QED
  BY <1>3 DEF InDocument, New

LEMMA AttachAjaxEffect ==
  ASSUME NEW p \in PageType, NEW q, q = AttachAjax(p)
  PROVE  /\ q \in PageType
         /\ SameMarkup(p, q) /\ SameRequests(p, q)
         /\ q.behaviour = p.behaviour /\ q.settings = p.settings
         /\ \A e \in Element : q.bound[e] = IF e \in New(p) THEN 1 ELSE p.bound[e]
         /\ q.instances = p.instances \union Made(p)
         /\ \A c \in Copy : c \notin Made(p) => q.object[c] = p.object[c] /\ q.form[c] = p.form[c]
         /\ \A c \in Made(p) : q.object[c] = IF c[1] \in Link THEN c ELSE p.settings[c[1]]
<1> DEFINE bound  == [e \in Element |-> IF e \in New(p) THEN p.bound[e] + 1 ELSE p.bound[e]]
           object == [c \in Copy |-> IF c \notin Made(p) THEN p.object[c]
                        ELSE IF c[1] \in Link THEN c ELSE p.settings[c[1]]]
           form   == [c \in Copy |-> IF c \notin Made(p) THEN p.form[c]
                        ELSE IF c[1] \in Within[Form] THEN p.document[Form] ELSE 0]
<1>1. q = [p EXCEPT !.bound = bound, !.instances = p.instances \union Made(p),
                    !.object = object, !.form = form]
  BY DEF AttachAjax, New, Made
<1>2. /\ bound \in [Element -> 0..1]
      /\ \A e \in Element : bound[e] = IF e \in New(p) THEN 1 ELSE p.bound[e]
  BY DEF New, NotBound, PageType
<1>3. object \in [Copy -> Copies]
  BY CopyParts DEF PageType, Copies
<1>4. form \in [Copy -> 0..MaxCopies]
  BY ElementIsName, PageAssumption DEF PageType
<1>5. p.instances \union Made(p) \in SUBSET Copy
  BY MadeCopies DEF PageType
<1>6. /\ q \in PageType
      /\ q.bound = bound /\ q.object = object /\ q.form = form
      /\ q.instances = p.instances \union Made(p)
      /\ SameMarkup(p, q) /\ SameRequests(p, q)
      /\ q.behaviour = p.behaviour /\ q.settings = p.settings
  <2> HIDE DEF bound, object, form
  <2> QED
    BY <1>1, <1>2, <1>3, <1>4, <1>5, ZenonT(40) DEF PageType, SameMarkup, SameRequests
<1> QED
  BY <1>2, <1>6, MadeCopies

LEMMA AttachBehaviorsEffect ==
  ASSUME NEW p \in PageType, NEW context, NEW q, q = AttachBehaviors(p, context)
  PROVE  /\ q \in PageType
         /\ SameMarkup(p, q) /\ SameRequests(p, q) /\ q.settings = p.settings
         /\ \A n \in Name : q.behaviour[n] = IF n \in context \cap Present(p)
                                             THEN "attached" ELSE p.behaviour[n]
         /\ \A e \in Element : q.bound[e] = IF e \in New(p) THEN 1 ELSE p.bound[e]
         /\ q.instances = p.instances \union Made(p)
         /\ \A c \in Copy : c \notin Made(p) => q.object[c] = p.object[c] /\ q.form[c] = p.form[c]
         /\ \A c \in Made(p) : q.object[c] = IF c[1] \in Link THEN c ELSE p.settings[c[1]]
<1> DEFINE behaviour == [n \in Name |-> IF n \in context \cap Present(p)
                                        THEN "attached" ELSE p.behaviour[n]]
           b == [p EXCEPT !.behaviour = behaviour]
<1>1. behaviour \in [Name -> {"attached", "serialized", "detached"}]
  BY DEF PageType
<1>2. /\ b \in PageType /\ SameMarkup(p, b) /\ SameRequests(p, b) /\ SameObjects(p, b)
      /\ b.settings = p.settings /\ b.behaviour = behaviour
  <2> HIDE DEF behaviour
  <2> QED
    BY <1>1 DEF PageType, SameMarkup, SameRequests, SameObjects
<1>3. q = AttachAjax(b)
  BY DEF AttachBehaviors
<1> HIDE DEF b
<1>4. New(b) = New(p) /\ Made(b) = Made(p)
  BY <1>2 DEF New, Made, Present, NotBound, Current, SameMarkup, SameObjects
<1>5. /\ q \in PageType
      /\ SameMarkup(b, q) /\ SameRequests(b, q)
      /\ q.behaviour = b.behaviour /\ q.settings = b.settings
      /\ \A e \in Element : q.bound[e] = IF e \in New(b) THEN 1 ELSE b.bound[e]
      /\ q.instances = b.instances \union Made(b)
      /\ \A c \in Copy : c \notin Made(b) => q.object[c] = b.object[c] /\ q.form[c] = b.form[c]
      /\ \A c \in Made(b) : q.object[c] = IF c[1] \in Link THEN c ELSE b.settings[c[1]]
  BY <1>2, <1>3, AttachAjaxEffect
<1>6. /\ \A c \in Copy : c \notin Made(p) => q.object[c] = p.object[c] /\ q.form[c] = p.form[c]
      /\ \A c \in Made(p) : q.object[c] = IF c[1] \in Link THEN c ELSE p.settings[c[1]]
  BY <1>2, <1>4, <1>5 DEF SameObjects
<1>7. SameMarkup(p, q) /\ SameRequests(p, q)
  BY <1>2, <1>5 DEF SameMarkup, SameRequests
<1>8. \A e \in Element : q.bound[e] = IF e \in New(p) THEN 1 ELSE p.bound[e]
  BY <1>2, <1>4, <1>5 DEF SameObjects
<1> QED
  BY <1>2, <1>4, <1>5, <1>6, <1>7, <1>8 DEF SameObjects

LEMMA DetachBehaviorsEffect ==
  ASSUME NEW p \in PageType, NEW context, NEW trigger \in {"unload", "serialize"},
         NEW q, q = DetachBehaviors(p, context, trigger)
  PROVE  /\ q \in PageType
         /\ SameMarkup(p, q) /\ SameRequests(p, q) /\ q.settings = p.settings
         /\ q.bound = p.bound /\ q.object = p.object /\ q.form = p.form
         /\ q.instances = IF trigger = "unload" THEN p.instances \ Expired(p) ELSE p.instances
         /\ \A n \in Name : q.behaviour[n] = IF n \notin context \cap Present(p) THEN p.behaviour[n]
                              ELSE IF trigger = "unload" THEN "detached" ELSE "serialized"
<1> DEFINE behaviour == [n \in Name |-> IF n \notin context \cap Present(p) THEN p.behaviour[n]
                           ELSE IF trigger = "unload" THEN "detached" ELSE "serialized"]
           instances == IF trigger = "unload" THEN p.instances \ Expired(p) ELSE p.instances
<1>1. q = [p EXCEPT !.behaviour = behaviour, !.instances = instances]
  BY DEF DetachBehaviors
<1>2. behaviour \in [Name -> {"attached", "serialized", "detached"}]
  BY DEF PageType
<1>3. instances \in SUBSET Copy
  BY DEF PageType
<1>4. /\ q \in PageType /\ q.behaviour = behaviour /\ q.instances = instances
      /\ SameMarkup(p, q) /\ SameRequests(p, q) /\ q.settings = p.settings
      /\ q.bound = p.bound /\ q.object = p.object /\ q.form = p.form
  <2> HIDE DEF behaviour, instances
  <2> QED
    BY <1>1, <1>2, <1>3, ZenonT(40) DEF PageType, SameMarkup, SameRequests
<1> QED
  BY <1>4

LEMMA ReplaceEffect ==
  ASSUME NEW p \in PageType, NEW target \in Name, NEW content \in SUBSET Within[target],
         \A n \in content : p.last[n] < MaxCopies,
         NEW q, q = Replace(p, target, content)
  PROVE  /\ q \in PageType
         /\ SameRequests(p, q) /\ q.settings = p.settings
         /\ q.instances = p.instances /\ q.object = p.object /\ q.form = p.form
         /\ \A n \in Name : /\ q.document[n] = IF n \in content THEN p.last[n] + 1
                                               ELSE IF n \in Within[target] THEN 0
                                               ELSE p.document[n]
                            /\ q.last[n] = IF n \in content THEN p.last[n] + 1 ELSE p.last[n]
                            /\ q.behaviour[n] = IF n \in Within[target] THEN "detached"
                                                ELSE p.behaviour[n]
         /\ \A e \in Element : q.bound[e] = IF e \in Within[target] THEN 0 ELSE p.bound[e]
<1> DEFINE document  == [n \in Name |-> IF n \in content THEN NextCopy(p, n)
                                        ELSE IF n \in Within[target] THEN 0 ELSE p.document[n]]
           last      == [n \in Name |-> IF n \in content THEN NextCopy(p, n) ELSE p.last[n]]
           behaviour == [n \in Name |-> IF n \in Within[target] THEN "detached"
                                        ELSE p.behaviour[n]]
           bound     == [e \in Element |-> IF e \in Within[target] THEN 0 ELSE p.bound[e]]
<1>1. q = [p EXCEPT !.document = document, !.last = last, !.behaviour = behaviour,
                    !.bound = bound]
  BY DEF Replace
<1>2. \A n \in Name : p.last[n] \in 1..MaxCopies /\ p.document[n] \in 0..MaxCopies
  BY DEF PageType
<1>3. \A n \in content : NextCopy(p, n) = p.last[n] + 1 /\ NextCopy(p, n) \in 1..MaxCopies
  <2>1. content \subseteq Name /\ MaxCopies \in Nat
    BY PageAssumption
  <2> QED
    BY <1>2, <2>1 DEF NextCopy
<1>4. document \in [Name -> 0..MaxCopies]
  BY <1>2, <1>3, PageAssumption
<1>5. last \in [Name -> 1..MaxCopies]
  BY <1>2, <1>3
<1>6. behaviour \in [Name -> {"attached", "serialized", "detached"}]
  BY DEF PageType
<1>7. bound \in [Element -> 0..1]
  BY DEF PageType
<1>8. /\ q \in PageType /\ q.document = document /\ q.last = last
      /\ q.behaviour = behaviour /\ q.bound = bound
      /\ SameRequests(p, q) /\ q.settings = p.settings
      /\ q.instances = p.instances /\ q.object = p.object /\ q.form = p.form
  <2> HIDE DEF document, last, behaviour, bound
  <2> QED
    BY <1>1, <1>4, <1>5, <1>6, <1>7, ZenonT(40) DEF PageType, SameRequests
<1> QED
  BY <1>3, <1>8

NewCopy(p, e) == <<e, p.last[e] + 1>>

LEMMA SettingsEffect ==
  ASSUME NEW p \in PageType, NEW content \in SUBSET Name,
         \A n \in content : p.last[n] < MaxCopies,
         NEW q, q = Settings(p, content)
  PROVE  /\ q \in PageType
         /\ SameMarkup(p, q) /\ SameRequests(p, q) /\ SameObjects(p, q)
         /\ q.behaviour = p.behaviour
         /\ \A e \in (Element \cap content) \ Link :
              /\ q.settings[e] # NoCopy
              /\ ~SameId => q.settings[e] = NewCopy(p, e)
<1> DEFINE gone == {c[1] : c \in Expired(p)}
           settings == [e \in Element |->
             IF e \in content \ Link
             THEN IF "same id" \in trouble /\ e \notin gone /\ p.settings[e] # NoCopy
                  THEN p.settings[e] ELSE <<e, NextCopy(p, e)>>
             ELSE IF "same id" \in trouble /\ e \in gone THEN NoCopy ELSE p.settings[e]]
<1>1. q = [p EXCEPT !.settings = settings]
  BY DEF Settings
<1>2. \A e \in Element \cap content : /\ <<e, NextCopy(p, e)>> \in Copy
                                      /\ NextCopy(p, e) = p.last[e] + 1
  <2> SUFFICES ASSUME NEW e \in Element \cap content
               PROVE  <<e, NextCopy(p, e)>> \in Copy /\ NextCopy(p, e) = p.last[e] + 1
    OBVIOUS
  <2>1. p.last[e] \in 1..MaxCopies /\ p.last[e] < MaxCopies /\ MaxCopies \in Nat
    BY PageAssumption DEF PageType
  <2>2. NextCopy(p, e) \in 1..MaxCopies /\ NextCopy(p, e) = p.last[e] + 1
    BY <2>1 DEF NextCopy
  <2> QED
    BY <2>2, CopyParts
<1>3. settings \in [Element -> Copies]
  <2> SUFFICES ASSUME NEW e \in Element PROVE settings[e] \in Copies
    OBVIOUS
  <2>1. p.settings[e] \in Copies /\ NoCopy \in Copies
    BY DEF PageType, Copies
  <2> QED
    BY <1>2, <2>1 DEF Copies
<1>4. \A e \in (Element \cap content) \ Link :
        /\ settings[e] # NoCopy
        /\ ~SameId => settings[e] = NewCopy(p, e)
  BY <1>2, CopyParts DEF NewCopy, SameId
<1>5. /\ q \in PageType /\ q.settings = settings
      /\ SameMarkup(p, q) /\ SameRequests(p, q) /\ SameObjects(p, q)
      /\ q.behaviour = p.behaviour
  <2> HIDE DEF settings
  <2> QED
    BY <1>1, <1>3 DEF PageType, SameMarkup, SameRequests, SameObjects
<1> QED
  BY <1>4, <1>5

-----------------------------------------------------------------------------
(* What holds of the Ajax objects of a page between two handlers.          *)

Bound(p) == \A e \in Element \cap Present(p) :
              p.bound[e] = 1 /\ Current(p, e) \in p.instances

FewExpired(p) == \A c, d \in Expired(p) : c[1] = d[1] => c = d

(* Copies are numbered as they are made, so that a new one has no object.  *)
Numbered(p) ==
  /\ \A n \in Name : p.document[n] <= p.last[n]
  /\ \A c \in Copy : p.object[c] # NoCopy => c[2] <= p.last[c[1]]

OwnObject(p) == ~SameId => \A c \in Copy : p.object[c] \in {c, NoCopy}

WrappersStay(p) == ~NoWrapper => Name \ Element \subseteq Present(p)

ObjectsOK(p) ==
  /\ \A c \in p.instances : p.object[c] # NoCopy
  /\ Bound(p) /\ FewExpired(p) /\ Numbered(p) /\ OwnObject(p) /\ WrappersStay(p)

(* What the commands of an answer leave: the requests and the objects that *)
(* were there.                                                             *)
Keeps(p, q) ==
  /\ SameRequests(p, q)
  /\ \A c \in Copy : p.object[c] # NoCopy =>
       q.object[c] = p.object[c] /\ q.form[c] = p.form[c]

(* What is in the document has its behaviours, or those it had; and then,  *)
(* in the form, the form is the same copy.                                 *)
BehavioursFollow(p, q) ==
  ~NoWrapper =>
    \A n \in Present(q) :
      \/ q.behaviour[n] = "attached"
      \/ /\ n \in Present(p) /\ q.behaviour[n] = p.behaviour[n]
         /\ n \in Within[Form] => q.document[Form] = p.document[Form]

LEMMA SameObjectsOK ==
  ASSUME NEW p, NEW q, ObjectsOK(p), SameMarkup(p, q), SameObjects(p, q)
  PROVE  ObjectsOK(q)
<1>1. /\ Present(q) = Present(p) /\ Expired(q) = Expired(p)
      /\ \A e : Current(q, e) = Current(p, e)
  BY DEF SameMarkup, SameObjects, Present, Current, Expired, InDocument
<1>2. Bound(q) /\ FewExpired(q) /\ WrappersStay(q)
  BY <1>1 DEF ObjectsOK, SameObjects, Bound, FewExpired, WrappersStay
<1>3. Numbered(q) /\ OwnObject(q) /\ \A c \in q.instances : q.object[c] # NoCopy
  BY DEF ObjectsOK, SameMarkup, SameObjects, Numbered, OwnObject
<1> QED
  BY <1>2, <1>3 DEF ObjectsOK

(* Every element in the document has its object, so attaching makes none.  *)
LEMMA AttachAgain ==
  ASSUME NEW p \in PageType, ObjectsOK(p), NEW context, NEW q, q = AttachBehaviors(p, context)
  PROVE  /\ q \in PageType /\ ObjectsOK(q)
         /\ SameMarkup(p, q) /\ SameRequests(p, q) /\ SameObjects(p, q)
         /\ \A n \in Name : q.behaviour[n] = IF n \in context \cap Present(p)
                                             THEN "attached" ELSE p.behaviour[n]
<1>1. New(p) = {} /\ Made(p) = {}
  BY DEF New, Made, ObjectsOK, Bound, NotBound
<1>2. /\ q \in PageType /\ SameMarkup(p, q) /\ SameRequests(p, q)
      /\ \A e \in Element : q.bound[e] = p.bound[e]
      /\ q.instances = p.instances
      /\ \A c \in Copy : q.object[c] = p.object[c] /\ q.form[c] = p.form[c]
      /\ \A n \in Name : q.behaviour[n] = IF n \in context \cap Present(p)
                                          THEN "attached" ELSE p.behaviour[n]
  <2>1. /\ q \in PageType /\ SameMarkup(p, q) /\ SameRequests(p, q)
        /\ \A n \in Name : q.behaviour[n] = IF n \in context \cap Present(p)
                                            THEN "attached" ELSE p.behaviour[n]
    BY AttachBehaviorsEffect
  <2>2. \A e \in Element : q.bound[e] = IF e \in New(p) THEN 1 ELSE p.bound[e]
    BY AttachBehaviorsEffect
  <2>3. q.instances = p.instances \union Made(p)
    BY AttachBehaviorsEffect
  <2>4. \A c \in Copy : c \notin Made(p) => q.object[c] = p.object[c] /\ q.form[c] = p.form[c]
    BY AttachBehaviorsEffect
  <2> QED
    BY <1>1, <2>1, <2>2, <2>3, <2>4
<1>3. q.bound = p.bound
  <2>1. q.bound \in [Element -> 0..1] /\ p.bound \in [Element -> 0..1]
    BY <1>2 DEF PageType
  <2> QED
    BY <1>2, <2>1
<1>4. q.object = p.object /\ q.form = p.form
  <2>1. /\ q.object \in [Copy -> Copies] /\ p.object \in [Copy -> Copies]
        /\ q.form \in [Copy -> 0..MaxCopies] /\ p.form \in [Copy -> 0..MaxCopies]
    BY <1>2 DEF PageType
  <2> QED
    BY <1>2, <2>1
<1>5. SameObjects(p, q)
  BY <1>2, <1>3, <1>4 DEF SameObjects
<1> QED
  BY <1>2, <1>5, SameObjectsOK

(* The page q is p when the target is out, and content in, without the     *)
(* objects that had expired before.                                        *)
IsTakenOut(p, target, content, q) ==
  /\ q \in PageType
  /\ SameRequests(p, q) /\ q.settings = p.settings
  /\ q.object = p.object /\ q.form = p.form
  /\ \A n \in Name : /\ q.document[n] = IF n \in content THEN p.last[n] + 1
                                        ELSE IF n \in Within[target] THEN 0
                                        ELSE p.document[n]
                     /\ q.last[n] = IF n \in content THEN p.last[n] + 1 ELSE p.last[n]
                     /\ n \notin Within[target] => q.behaviour[n] = p.behaviour[n]
  /\ \A e \in Element \cap Within[target] : q.bound[e] = 0
  /\ \A e \in (Element \cap Present(q)) \ Within[target] :
       q.bound[e] = 1 /\ Current(q, e) \in q.instances
  /\ q.instances \subseteq p.instances /\ FewExpired(q)

LEMMA TakenOut ==
  ASSUME NEW p \in PageType, ObjectsOK(p), NEW target \in Name,
         NEW content \in SUBSET Within[target], \A n \in content : p.last[n] < MaxCopies,
         NEW q, q = Replace(DetachBehaviors(p, Within[target], "unload"), target, content)
  PROVE  IsTakenOut(p, target, content, q)
<1> DEFINE d == DetachBehaviors(p, Within[target], "unload")
<1>1. /\ d \in PageType
      /\ SameMarkup(p, d) /\ SameRequests(p, d) /\ d.settings = p.settings
      /\ d.bound = p.bound /\ d.object = p.object /\ d.form = p.form
      /\ d.instances = p.instances \ Expired(p)
      /\ \A n \in Name : n \notin Within[target] => d.behaviour[n] = p.behaviour[n]
  <2> HIDE DEF d
  <2>1. d = DetachBehaviors(p, Within[target], "unload")
    BY DEF d
  <2> QED
    BY <2>1, DetachBehaviorsEffect
<1> HIDE DEF d
<1>2. q = Replace(d, target, content) /\ \A n \in content : d.last[n] < MaxCopies
  BY <1>1 DEF d, SameMarkup
<1>3. /\ q \in PageType
      /\ SameRequests(d, q) /\ q.settings = d.settings
      /\ q.instances = d.instances /\ q.object = d.object /\ q.form = d.form
      /\ \A n \in Name : /\ q.document[n] = IF n \in content THEN d.last[n] + 1
                                            ELSE IF n \in Within[target] THEN 0
                                            ELSE d.document[n]
                         /\ q.last[n] = IF n \in content THEN d.last[n] + 1 ELSE d.last[n]
                         /\ q.behaviour[n] = IF n \in Within[target] THEN "detached"
                                             ELSE d.behaviour[n]
      /\ \A e \in Element : q.bound[e] = IF e \in Within[target] THEN 0 ELSE d.bound[e]
  BY <1>1, <1>2, ReplaceEffect
<1>4. SameRequests(p, q) /\ q.settings = p.settings /\ q.object = p.object /\ q.form = p.form
  BY <1>1, <1>3 DEF SameRequests
<1>5. \A n \in Name : /\ q.document[n] = IF n \in content THEN p.last[n] + 1
                                         ELSE IF n \in Within[target] THEN 0
                                         ELSE p.document[n]
                      /\ q.last[n] = IF n \in content THEN p.last[n] + 1 ELSE p.last[n]
                      /\ n \notin Within[target] => q.behaviour[n] = p.behaviour[n]
  BY <1>1, <1>3 DEF SameMarkup
<1>6. \A c \in q.instances : c \in p.instances /\ c \in Copy /\ InDocument(p, c)
  BY <1>1, <1>3 DEF Expired, PageType
<1>7. FewExpired(q)
  <2> SUFFICES ASSUME NEW b \in q.instances, NEW c \in q.instances, b[1] = c[1] PROVE b = c
    BY DEF FewExpired, Expired
  <2>1. b[2] = p.document[b[1]] /\ c[2] = p.document[c[1]] /\ b \in Copy /\ c \in Copy
    BY <1>6 DEF InDocument
  <2> QED
    BY <2>1, CopyParts
<1>8. ASSUME NEW e \in (Element \cap Present(q)) \ Within[target]
      PROVE  q.bound[e] = 1 /\ Current(q, e) \in q.instances
  <2>1. e \in Name /\ e \notin content /\ q.document[e] = p.document[e]
    BY <1>5, ElementIsName DEF Present
  <2>2. e \in Present(p)
    BY <2>1 DEF Present
  <2>3. p.bound[e] = 1 /\ Current(p, e) \in p.instances
    BY <2>2 DEF ObjectsOK, Bound
  <2>4. Current(p, e) \notin Expired(p)
    BY DEF Current, Expired, InDocument
  <2>5. Current(q, e) = Current(p, e)
    BY <2>1 DEF Current
  <2> QED
    BY <1>1, <1>3, <2>3, <2>4, <2>5
<1>9. \A e \in Element \cap Within[target] : q.bound[e] = 0
  BY <1>3
<1> QED
  BY <1>3, <1>4, <1>5, <1>6, <1>7, <1>8, <1>9 DEF IsTakenOut

(* New content in the place of the target, with objects of its own.        *)
LEMMA ReplacedContent ==
  ASSUME NEW p \in PageType, ObjectsOK(p), NEW target \in Name, target \in Present(p),
         NEW content \in SUBSET Within[target], \A n \in content : p.last[n] < MaxCopies,
         ~NoWrapper => \A n \in Within[target] : n \in Element \/ n \in content,
         NEW s, s = Settings(p, content), NEW q, q = Insert(s, target, content)
  PROVE  q \in PageType /\ ObjectsOK(q) /\ Keeps(p, q) /\ BehavioursFollow(p, q)
<1>1. target \in Name /\ Within[target] \subseteq Name /\ content \subseteq Name
  BY PageAssumption DEF Present
<1>2. /\ s \in PageType
      /\ SameMarkup(p, s) /\ SameRequests(p, s) /\ SameObjects(p, s)
      /\ s.behaviour = p.behaviour
      /\ \A e \in (Element \cap content) \ Link :
           /\ s.settings[e] # NoCopy
           /\ ~SameId => s.settings[e] = NewCopy(p, e)
  BY <1>1, SettingsEffect
<1>3. ObjectsOK(s) /\ \A n \in content : s.last[n] < MaxCopies
  BY <1>2, SameObjectsOK DEF SameMarkup
<1> DEFINE r == Replace(DetachBehaviors(s, Within[target], "unload"), target, content)
<1>4. q = AttachBehaviors(r, content)
  BY <1>2 DEF Insert, Present, SameMarkup
<1>5. /\ r \in PageType
      /\ SameRequests(s, r) /\ r.settings = s.settings
      /\ r.object = s.object /\ r.form = s.form
      /\ \A n \in Name : /\ r.document[n] = IF n \in content THEN s.last[n] + 1
                                            ELSE IF n \in Within[target] THEN 0
                                            ELSE s.document[n]
                         /\ r.last[n] = IF n \in content THEN s.last[n] + 1 ELSE s.last[n]
                         /\ n \notin Within[target] => r.behaviour[n] = s.behaviour[n]
      /\ \A e \in Element \cap Within[target] : r.bound[e] = 0
      /\ \A e \in (Element \cap Present(r)) \ Within[target] :
           r.bound[e] = 1 /\ Current(r, e) \in r.instances
      /\ r.instances \subseteq s.instances /\ FewExpired(r)
  <2>1. IsTakenOut(s, target, content, r)
    BY <1>1, <1>2, <1>3, TakenOut
  <2> HIDE DEF r
  <2> QED
    BY <2>1 DEF IsTakenOut
<1> HIDE DEF r
<1>6. /\ SameRequests(p, r) /\ r.object = p.object /\ r.form = p.form
      /\ \A n \in Name : /\ r.document[n] = IF n \in content THEN p.last[n] + 1
                                            ELSE IF n \in Within[target] THEN 0
                                            ELSE p.document[n]
                         /\ r.last[n] = IF n \in content THEN p.last[n] + 1 ELSE p.last[n]
                         /\ n \notin Within[target] => r.behaviour[n] = p.behaviour[n]
      /\ r.instances \subseteq p.instances
  BY <1>2, <1>5 DEF SameRequests, SameMarkup, SameObjects
<1>7. \A n \in Name : p.last[n] \in 1..MaxCopies /\ p.document[n] \in 0..MaxCopies
  BY DEF PageType
<1>8. New(r) = Element \cap content
  <2>1. ASSUME NEW e \in Element \cap content PROVE e \in New(r)
    <3>1. r.document[e] # 0 /\ e \in Name
      BY <1>1, <1>6, <1>7, <2>1
    <3>2. r.bound[e] = 0
      BY <1>5, <2>1
    <3>3. e \in Link \/ r.settings[e] # NoCopy
      BY <1>2, <1>5, <2>1
    <3> QED
      BY <2>1, <3>1, <3>2, <3>3 DEF New, Present, NotBound
  <2>2. ASSUME NEW e \in New(r) PROVE e \in content
    <3>1. e \in Element /\ e \in Present(r) /\ r.bound[e] = 0
      BY DEF New, NotBound
    <3>2. e \in Within[target]
      BY <1>5, <3>1
    <3> QED
      BY <1>6, <3>1, <3>2 DEF Present
  <2>3. New(r) \subseteq Element
    BY DEF New
  <2> QED
    BY <2>1, <2>2, <2>3
<1>9. \A e \in Element \cap content : Current(r, e) = NewCopy(p, e)
  BY <1>1, <1>6 DEF Current, NewCopy
<1>10. Made(r) = {NewCopy(p, e) : e \in Element \cap content}
  BY <1>8, <1>9 DEF Made
<1>11. /\ Made(r) \subseteq Copy
       /\ \A c \in Made(r) : /\ c[1] \in Element \cap content /\ InDocument(r, c)
                             /\ c[2] = p.last[c[1]] + 1 /\ c = NewCopy(p, c[1])
                             /\ p.object[c] = NoCopy
  <2>1. Made(r) \subseteq Copy /\ \A c \in Made(r) : InDocument(r, c)
    BY <1>5, MadeCopies
  <2> SUFFICES ASSUME NEW c \in Made(r)
               PROVE  /\ c[1] \in Element \cap content
                      /\ c[2] = p.last[c[1]] + 1 /\ c = NewCopy(p, c[1])
                      /\ p.object[c] = NoCopy
    BY <2>1
  <2>2. PICK e \in Element \cap content : c = NewCopy(p, e)
    BY <1>10
  <2>3. c[1] = e /\ c[2] = p.last[e] + 1 /\ c \in Copy
    BY <2>1, <2>2 DEF NewCopy
  <2>4. p.last[e] \in Int
    BY <1>1, <1>7, <2>2
  <2>5. p.object[c] = NoCopy
    BY <2>3, <2>4 DEF ObjectsOK, Numbered
  <2> QED
    BY <2>2, <2>3, <2>5
<1>12. /\ q \in PageType /\ SameMarkup(r, q) /\ SameRequests(r, q)
       /\ \A n \in Name : q.behaviour[n] = IF n \in content \cap Present(r)
                                           THEN "attached" ELSE r.behaviour[n]
  BY <1>4, <1>5, AttachBehaviorsEffect
<1>13. /\ \A e \in Element : q.bound[e] = IF e \in New(r) THEN 1 ELSE r.bound[e]
       /\ q.instances = r.instances \union Made(r)
  BY <1>4, <1>5, AttachBehaviorsEffect
<1>14. /\ \A c \in Copy : c \notin Made(r) => q.object[c] = p.object[c] /\ q.form[c] = p.form[c]
       /\ \A c \in Made(r) : q.object[c] = IF c[1] \in Link THEN c ELSE s.settings[c[1]]
  <2>1. /\ \A c \in Copy : c \notin Made(r) => q.object[c] = r.object[c] /\ q.form[c] = r.form[c]
        /\ \A c \in Made(r) : q.object[c] = IF c[1] \in Link THEN c ELSE r.settings[c[1]]
    BY <1>4, <1>5, AttachBehaviorsEffect
  <2> QED
    BY <1>5, <1>6, <2>1
<1>15. \A c \in Made(r) : /\ q.object[c] # NoCopy
                          /\ ~SameId => q.object[c] = c
  BY <1>2, <1>11, <1>14, CopyParts
<1>16. Keeps(p, q)
  BY <1>6, <1>11, <1>12, <1>14 DEF Keeps, SameRequests
<1>17. /\ Present(q) = Present(r) /\ \A e : Current(q, e) = Current(r, e)
       /\ \A c : InDocument(q, c) <=> InDocument(r, c)
  BY <1>12 DEF SameMarkup, Present, Current, InDocument
<1>18. Bound(q)
  <2> SUFFICES ASSUME NEW e \in Element \cap Present(r)
               PROVE  q.bound[e] = 1 /\ Current(r, e) \in q.instances
    BY <1>17 DEF Bound
  <2>1. CASE e \in content
    BY <1>8, <1>9, <1>10, <1>13, <2>1
  <2>2. CASE e \notin content
    <3>1. e \notin Within[target]
      BY <1>6, <2>2 DEF Present
    <3> QED
      BY <1>5, <1>8, <1>13, <2>2, <3>1
  <2> QED
    BY <2>1, <2>2
<1>19. FewExpired(q)
  <2>1. Expired(q) = Expired(r)
    BY <1>11, <1>13, <1>17 DEF Expired
  <2> QED
    BY <1>5, <2>1 DEF FewExpired
<1>20. Numbered(q)
  <2>1. \A n \in Name : q.document[n] <= q.last[n] /\ p.last[n] <= q.last[n]
    <3> SUFFICES ASSUME NEW n \in Name PROVE r.document[n] <= r.last[n] /\ p.last[n] <= r.last[n]
      BY <1>12 DEF SameMarkup
    <3>1. p.document[n] <= p.last[n]
      BY DEF ObjectsOK, Numbered
    <3> QED
      BY <1>6, <1>7, <3>1
  <2>2. ASSUME NEW c \in Copy, q.object[c] # NoCopy PROVE c[2] <= q.last[c[1]]
    <3>1. c[1] \in Name /\ c[2] \in Int
      BY CopyParts, ElementIsName
    <3>2. CASE c \in Made(r)
      BY <1>1, <1>6, <1>7, <1>11, <1>12, <3>1, <3>2 DEF SameMarkup
    <3>3. CASE c \notin Made(r)
      <4>1. c[2] <= p.last[c[1]]
        BY <1>14, <2>2, <3>3 DEF ObjectsOK, Numbered
      <4>2. q.last[c[1]] \in Int /\ p.last[c[1]] \in Int
        BY <1>7, <1>12, <3>1 DEF PageType
      <4> QED
        BY <2>1, <3>1, <4>1, <4>2
    <3> QED
      BY <3>2, <3>3
  <2> QED
    BY <2>1, <2>2 DEF Numbered
<1>21. OwnObject(q)
  BY <1>14, <1>15 DEF ObjectsOK, OwnObject
<1>22. WrappersStay(q)
  <2> SUFFICES ASSUME ~NoWrapper, NEW n \in Name \ Element
               PROVE  n \in Present(r)
    BY <1>17 DEF WrappersStay
  <2>1. n \in Present(p)
    BY DEF ObjectsOK, WrappersStay
  <2> QED
    BY <1>6, <1>7, <2>1 DEF Present
<1>23. \A c \in q.instances : q.object[c] # NoCopy
  <2> SUFFICES ASSUME NEW c \in q.instances, c \notin Made(r) PROVE q.object[c] # NoCopy
    BY <1>15
  <2>1. c \in p.instances /\ c \in Copy
    BY <1>6, <1>13 DEF PageType
  <2> QED
    BY <1>14, <2>1 DEF ObjectsOK
<1>24. BehavioursFollow(p, q)
  <2> SUFFICES ASSUME NEW n \in Present(r), q.behaviour[n] # "attached"
               PROVE  /\ n \in Present(p) /\ q.behaviour[n] = p.behaviour[n]
                      /\ n \in Within[Form] => q.document[Form] = p.document[Form]
    BY <1>17 DEF BehavioursFollow
  <2>1. n \in Name /\ n \notin content
    BY <1>12 DEF Present
  <2>2. n \notin Within[target] /\ n \in Present(p)
    BY <1>6, <2>1 DEF Present
  <2>3. q.behaviour[n] = p.behaviour[n]
    BY <1>6, <1>12, <2>1, <2>2
  <2>4. ASSUME n \in Within[Form] PROVE q.document[Form] = p.document[Form]
    <3>1. Form \notin Within[target]
      BY <1>1, <2>2, <2>4, PageAssumption
    <3> QED
      BY <1>6, <1>12, <3>1, ElementIsName DEF SameMarkup
  <2> QED
    BY <2>2, <2>3, <2>4
<1> QED
  BY <1>12, <1>16, <1>18, <1>19, <1>20, <1>21, <1>22, <1>23, <1>24 DEF ObjectsOK

LEMMA NoCommand ==
  ASSUME NEW p
  PROVE  Keeps(p, p) /\ BehavioursFollow(p, p)
BY DEF Keeps, SameRequests, BehavioursFollow

(* The wrapper is gone, and what is detached is the whole document.        *)
LEMMA LostContent ==
  ASSUME NEW p \in PageType, ObjectsOK(p), NEW target \in Name \ Element, target \notin Present(p),
         NEW content \in SUBSET Name, \A n \in content : p.last[n] < MaxCopies,
         NEW s, s = Settings(p, content), NEW q, q = Insert(s, target, content)
  PROVE  q \in PageType /\ ObjectsOK(q) /\ Keeps(p, q) /\ BehavioursFollow(p, q)
<1>1. /\ s \in PageType
      /\ SameMarkup(p, s) /\ SameRequests(p, s) /\ SameObjects(p, s)
  BY SettingsEffect
<1>2. ObjectsOK(s)
  BY <1>1, SameObjectsOK
<1>3. q = DetachBehaviors(s, Name, "unload")
  BY <1>1 DEF Insert, Present, SameMarkup
<1>4. /\ q \in PageType
      /\ SameMarkup(s, q) /\ SameRequests(s, q)
      /\ q.bound = s.bound /\ q.object = s.object /\ q.form = s.form
      /\ q.instances = s.instances \ Expired(s)
  BY <1>1, <1>3, DetachBehaviorsEffect
<1>5. /\ Present(q) = Present(s) /\ \A e : Current(q, e) = Current(s, e)
      /\ \A c : InDocument(q, c) <=> InDocument(s, c)
  BY <1>4 DEF SameMarkup, Present, Current, InDocument
<1>6. Bound(q)
  <2>1. \A e : Current(s, e) \notin Expired(s)
    BY DEF Current, Expired, InDocument
  <2> QED
    BY <1>2, <1>4, <1>5, <2>1 DEF ObjectsOK, Bound
<1>7. FewExpired(q)
  BY <1>4, <1>5 DEF FewExpired, Expired
<1>8. Numbered(q) /\ OwnObject(q) /\ \A c \in q.instances : q.object[c] # NoCopy
  BY <1>2, <1>4 DEF ObjectsOK, Numbered, OwnObject, SameMarkup
<1>9. NoWrapper /\ WrappersStay(q)
  BY DEF ObjectsOK, WrappersStay
<1>10. Keeps(p, q)
  BY <1>1, <1>4 DEF Keeps, SameRequests, SameObjects
<1> QED
  BY <1>4, <1>6, <1>7, <1>8, <1>9, <1>10 DEF ObjectsOK, BehavioursFollow

LEMMA RemovedElement ==
  ASSUME NEW p \in PageType, ObjectsOK(p), NEW target \in Element, NEW q, q = Remove(p, target)
  PROVE  q \in PageType /\ ObjectsOK(q) /\ Keeps(p, q) /\ BehavioursFollow(p, q)
<1>1. CASE target \notin Present(p)
  BY <1>1, NoCommand DEF Remove
<1>2. CASE target \in Present(p)
  <2>1. q = Replace(DetachBehaviors(p, Within[target], "unload"), target, {})
    BY <1>2 DEF Remove
  <2>2. target \in Name /\ Within[target] \subseteq Element /\ {} \in SUBSET Within[target]
    BY PageAssumption
  <2>3. IsTakenOut(p, target, {}, q)
    BY <2>1, <2>2, TakenOut
  <2>4. /\ q \in PageType /\ SameRequests(p, q)
        /\ q.object = p.object /\ q.form = p.form
        /\ \A n \in Name : /\ q.document[n] = IF n \in Within[target] THEN 0 ELSE p.document[n]
                           /\ q.last[n] = p.last[n]
                           /\ n \notin Within[target] => q.behaviour[n] = p.behaviour[n]
    BY <2>3 DEF IsTakenOut
  <2>5. /\ \A e \in (Element \cap Present(q)) \ Within[target] :
             q.bound[e] = 1 /\ Current(q, e) \in q.instances
        /\ q.instances \subseteq p.instances /\ FewExpired(q)
    BY <2>3 DEF IsTakenOut
  <2>6. \A n \in Present(q) : n \in Name /\ n \notin Within[target] /\ n \in Present(p)
    BY <2>4 DEF Present
  <2>7. Bound(q)
    BY <2>5, <2>6 DEF Bound
  <2>8. Numbered(q)
    <3>1. \A n \in Name : q.document[n] <= q.last[n]
      <4> SUFFICES ASSUME NEW n \in Name PROVE q.document[n] <= q.last[n]
        OBVIOUS
      <4>1. p.document[n] <= p.last[n] /\ p.last[n] \in 1..MaxCopies /\ MaxCopies \in Nat
        BY PageAssumption DEF ObjectsOK, Numbered, PageType
      <4> QED
        BY <2>4, <4>1
    <3>2. \A c \in Copy : q.object[c] # NoCopy => c[2] <= q.last[c[1]]
      BY <2>4, CopyParts, ElementIsName DEF ObjectsOK, Numbered
    <3> QED
      BY <3>1, <3>2 DEF Numbered
  <2>9. OwnObject(q) /\ \A c \in q.instances : q.object[c] # NoCopy
    BY <2>4, <2>5 DEF ObjectsOK, OwnObject
  <2>10. WrappersStay(q)
    BY <2>2, <2>4 DEF ObjectsOK, WrappersStay, Present
  <2>11. BehavioursFollow(p, q)
    <3> SUFFICES ASSUME NEW n \in Present(q)
                 PROVE  /\ n \in Present(p) /\ q.behaviour[n] = p.behaviour[n]
                        /\ q.document[Form] = p.document[Form]
      BY DEF BehavioursFollow
    <3>1. Form \notin Within[target]
      BY <2>2, PageAssumption
    <3> QED
      BY <2>4, <2>6, <3>1, ElementIsName
  <2>12. Keeps(p, q)
    BY <2>4 DEF Keeps
  <2> QED
    BY <2>4, <2>5, <2>7, <2>8, <2>9, <2>10, <2>11, <2>12 DEF ObjectsOK
<1> QED
  BY <1>1, <1>2

(* Whatever the commands of an answer are.                                 *)
LEMMA CommandsEffect ==
  ASSUME NEW p \in PageType, ObjectsOK(p), p.last = page.last, NEW e \in Element,
         NEW q \in Commands(p, e)
  PROVE  q \in PageType /\ ObjectsOK(q) /\ Keeps(p, q) /\ BehavioursFollow(p, q)
<1>1. CASE q = p
  BY <1>1, NoCommand
<1>2. ASSUME NEW n \in Element \ Link, q = Remove(p, n)
      PROVE  q \in PageType /\ ObjectsOK(q) /\ Keeps(p, q) /\ BehavioursFollow(p, q)
  BY <1>2, RemovedElement
<1>3. ASSUME NEW content \in Contents(e),
             q = Insert(Settings(p, content), Wrapper[e], content)
      PROVE  q \in PageType /\ ObjectsOK(q) /\ Keeps(p, q) /\ BehavioursFollow(p, q)
  <2>1. Wrapper[e] \in Name \ Element /\ Within[Wrapper[e]] \subseteq Name
    BY PageAssumption
  <2>2. content \in SUBSET Within[Wrapper[e]] /\ \A n \in content : p.last[n] < MaxCopies
    BY DEF Contents
  <2>3. CASE Wrapper[e] \in Present(p)
    <3>1. ~NoWrapper => \A n \in Within[Wrapper[e]] : n \in Element \/ n \in content
      BY DEF Contents, NoWrapper
    <3> QED
      BY <1>3, <2>1, <2>2, <2>3, <3>1, ReplacedContent
  <2>4. CASE Wrapper[e] \notin Present(p)
    BY <1>3, <2>1, <2>2, <2>4, LostContent
  <2> QED
    BY <2>3, <2>4
<1> QED
  BY <1>1, <1>2, <1>3 DEF Commands

-----------------------------------------------------------------------------
(* Requests: what holds of them between two handlers, and how it survives  *)
(* an answer.                                                              *)

Out(p) == {c \in Copy : p.flight[c] > 0}

OneAtATime(p) ==
  /\ \A c \in Copy : p.flight[c] < 2
  /\ Out(p) \subseteq p.ajaxing
  /\ AllComplete => p.ajaxing \subseteq Out(p)

(* An indicator is found again by the settings object of its Ajax object.  *)
Indicators(p) ==
  /\ p.disabled \subseteq Out(p)
  /\ ~SameId => p.shown = Out(p) /\ \A c \in p.shown : p.progress[c] = c

RequestsOK(p) ==
  /\ \A c \in p.shown \union p.ajaxing \union p.disabled : p.object[c] # NoCopy
  /\ OneAtATime(p) /\ Indicators(p)

BehavioursOK(p) ==
  trouble \cap {"no wrapper", "throws"} = {} =>
    \A n \in Present(p) :
      \/ p.behaviour[n] = "attached"
      \/ /\ p.behaviour[n] = "serialized"
         /\ n \in Within[Form]
         /\ \E c \in Out(p) : HasForm(p, c)

PageOK(p) == p \in PageType /\ ObjectsOK(p) /\ RequestsOK(p) /\ BehavioursOK(p)

LEMMA OutHasObject ==
  ASSUME NEW p, RequestsOK(p), NEW c \in Out(p)
  PROVE  c \in Copy /\ p.object[c] # NoCopy /\ c \in p.ajaxing
BY DEF Out, RequestsOK, OneAtATime

LEMMA BeforeSendEffect ==
  ASSUME NEW p \in PageType, NEW c \in Copy, p.object[c] \in Copy, p.flight[c] < 2,
         NEW q, q = BeforeSend(p, c)
  PROVE  /\ q \in PageType /\ SameMarkup(p, q) /\ SameObjects(p, q)
         /\ q.behaviour = p.behaviour
         /\ q.shown = p.shown \union {c} /\ q.ajaxing = p.ajaxing \union {c}
         /\ q.disabled = p.disabled \union {c}
         /\ \A b \in Copy : q.flight[b] = IF b = c THEN p.flight[b] + 1 ELSE p.flight[b]
         /\ \A b \in Copy : q.progress[b] = IF b = p.object[c] THEN c ELSE p.progress[b]
<1> DEFINE flight   == [p.flight EXCEPT ![c] = @ + 1]
           progress == [p.progress EXCEPT ![p.object[c]] = c]
           s == [p EXCEPT !.ajaxing = @ \union {c}, !.disabled = @ \union {c}, !.flight = flight]
<1>1. /\ flight \in [Copy -> 0..2]
      /\ \A b \in Copy : flight[b] = IF b = c THEN p.flight[b] + 1 ELSE p.flight[b]
  BY DEF PageType
<1>2. /\ progress \in [Copy -> Copies]
      /\ \A b \in Copy : progress[b] = IF b = p.object[c] THEN c ELSE p.progress[b]
  BY DEF PageType, Copies
<1>3. /\ s \in PageType /\ SameMarkup(p, s) /\ SameObjects(p, s)
      /\ s.behaviour = p.behaviour /\ s.shown = p.shown /\ s.progress = p.progress
      /\ s.ajaxing = p.ajaxing \union {c} /\ s.disabled = p.disabled \union {c}
      /\ s.flight = flight
  <2> HIDE DEF flight
  <2> QED
    BY <1>1 DEF PageType, SameMarkup, SameObjects
<1>4. q = [s EXCEPT !.shown = @ \union {c}, !.progress[p.object[c]] = c]
  BY DEF BeforeSend, SetProgressIndicator, PageType
<1> HIDE DEF s
<1>5. q = [s EXCEPT !.shown = p.shown \union {c}, !.progress = progress]
  BY <1>3, <1>4
<1>6. /\ q \in PageType /\ SameMarkup(s, q) /\ SameObjects(s, q)
      /\ q.behaviour = s.behaviour /\ q.ajaxing = s.ajaxing /\ q.disabled = s.disabled
      /\ q.flight = s.flight /\ q.shown = p.shown \union {c} /\ q.progress = progress
  <2>1. p.shown \union {c} \in SUBSET Copy
    BY DEF PageType
  <2>2. progress \in [Copy -> Copies] /\ s \in PageType
    BY <1>2, <1>3
  <2> DEFINE shown == p.shown \union {c}
  <2> HIDE DEF progress, flight, shown
  <2>3. q = [s EXCEPT !.shown = shown, !.progress = progress] /\ shown \in SUBSET Copy
    BY <1>5, <2>1 DEF shown
  <2> QED
    BY <2>2, <2>3 DEF PageType, SameMarkup, SameObjects, shown
<1>7. SameMarkup(p, q) /\ SameObjects(p, q)
  BY <1>3, <1>6 DEF SameMarkup, SameObjects
<1> QED
  <2> HIDE DEF flight, progress
  <2> QED
    BY <1>1, <1>2, <1>3, <1>6, <1>7

LEMMA RemoveIndicatorEffect ==
  ASSUME NEW p \in PageType, NEW c, NEW q, q = RemoveIndicator(p, c)
  PROVE  /\ q \in PageType /\ SameMarkup(p, q) /\ SameObjects(p, q)
         /\ q.behaviour = p.behaviour /\ q.ajaxing = p.ajaxing
         /\ q.flight = p.flight /\ q.progress = p.progress
         /\ q.shown = p.shown \ {p.progress[p.object[c]]} /\ q.disabled = p.disabled \ {c}
BY DEF RemoveIndicator, PageType, SameMarkup, SameObjects

LEMMA CompleteEffect ==
  ASSUME NEW p \in PageType, NEW c, NEW q, q = Complete(p, c)
  PROVE  /\ q \in PageType /\ SameMarkup(p, q) /\ SameObjects(p, q)
         /\ q.behaviour = p.behaviour /\ q.ajaxing = p.ajaxing \ {c}
         /\ q.flight = p.flight /\ q.progress = p.progress
         /\ q.shown = p.shown /\ q.disabled = p.disabled
BY DEF Complete, PageType, SameMarkup, SameObjects

LEMMA OverEffect ==
  ASSUME NEW p \in PageType, NEW c \in Copy, p.flight[c] > 0, NEW q, q = Over(p, c)
  PROVE  /\ q \in PageType /\ SameMarkup(p, q) /\ SameObjects(p, q)
         /\ q.behaviour = p.behaviour /\ q.ajaxing = p.ajaxing /\ q.progress = p.progress
         /\ q.shown = p.shown /\ q.disabled = p.disabled
         /\ \A b \in Copy : q.flight[b] = IF b = c THEN p.flight[b] - 1 ELSE p.flight[b]
<1> DEFINE flight == [p.flight EXCEPT ![c] = @ - 1]
<1>1. /\ flight \in [Copy -> 0..2]
      /\ \A b \in Copy : flight[b] = IF b = c THEN p.flight[b] - 1 ELSE p.flight[b]
  BY DEF PageType
<1>2. q = [p EXCEPT !.flight = flight]
  BY DEF Over, PageType
<1>3. /\ q \in PageType /\ SameMarkup(p, q) /\ SameObjects(p, q)
      /\ q.behaviour = p.behaviour /\ q.ajaxing = p.ajaxing /\ q.progress = p.progress
      /\ q.shown = p.shown /\ q.disabled = p.disabled /\ q.flight = flight
  <2> HIDE DEF flight
  <2> QED
    BY <1>1, <1>2 DEF PageType, SameMarkup, SameObjects
<1> QED
  BY <1>1, <1>3

LEMMA AttachFormEffect ==
  ASSUME NEW p \in PageType, ObjectsOK(p), NEW c, NEW q, q = AttachForm(p, c)
  PROVE  /\ q \in PageType /\ ObjectsOK(q)
         /\ SameMarkup(p, q) /\ SameRequests(p, q) /\ SameObjects(p, q)
         /\ \A n \in Name : q.behaviour[n] =
              IF HasForm(p, c) /\ n \in Within[Form] \cap Present(p)
              THEN "attached" ELSE p.behaviour[n]
<1>1. CASE HasForm(p, c)
  BY <1>1, AttachAgain DEF AttachForm
<1>2. CASE ~HasForm(p, c)
  BY <1>2 DEF AttachForm, SameMarkup, SameRequests, SameObjects
<1> QED
  BY <1>1, <1>2

(* What an answer to c does to the requests: c's is over, and nobody       *)
(* else's; c is not refused any more unless a trouble prevents complete(). *)
IsOver(p, c, q) ==
  /\ q.shown = p.shown \ {p.progress[p.object[c]]} /\ q.disabled = p.disabled \ {c}
  /\ q.progress = p.progress
  /\ p.ajaxing \ {c} \subseteq q.ajaxing /\ q.ajaxing \subseteq p.ajaxing
  /\ AllComplete => q.ajaxing = p.ajaxing \ {c}
  /\ \A b \in Copy : q.flight[b] = IF b = c THEN p.flight[b] - 1 ELSE p.flight[b]
  /\ \A b \in Copy : p.object[b] # NoCopy => q.object[b] = p.object[b]

LEMMA RequestOver ==
  ASSUME NEW p \in PageType, RequestsOK(p), OwnObject(p), NEW c \in Out(p),
         NEW q \in PageType, IsOver(p, c, q)
  PROVE  RequestsOK(q) /\ Out(q) = Out(p) \ {c}
<1>1. c \in Copy /\ p.object[c] # NoCopy /\ p.flight[c] = 1
  <2>1. p.flight[c] \in 0..2 /\ p.flight[c] > 0 /\ p.flight[c] < 2
    BY DEF Out, RequestsOK, OneAtATime, PageType
  <2> QED
    BY <2>1, OutHasObject
<1>2. Out(q) = Out(p) \ {c}
  <2>1. \A b \in Copy : q.flight[b] = IF b = c THEN 0 ELSE p.flight[b]
    BY <1>1 DEF IsOver
  <2> QED
    BY <2>1 DEF Out
<1>3. \A b \in q.shown \union q.ajaxing \union q.disabled : q.object[b] # NoCopy
  <2>1. \A b \in q.shown \union q.ajaxing \union q.disabled :
          b \in Copy /\ b \in p.shown \union p.ajaxing \union p.disabled
    BY DEF IsOver, PageType
  <2> QED
    BY <2>1 DEF IsOver, RequestsOK
<1>4. OneAtATime(q)
  <2>1. \A b \in Copy : q.flight[b] < 2
    BY <1>1 DEF IsOver, RequestsOK, OneAtATime
  <2>2. Out(q) \subseteq q.ajaxing
    BY <1>2 DEF IsOver, RequestsOK, OneAtATime
  <2>3. AllComplete => q.ajaxing \subseteq Out(q)
    BY <1>2 DEF IsOver, RequestsOK, OneAtATime
  <2> QED
    BY <2>1, <2>2, <2>3 DEF OneAtATime
<1>5. Indicators(q)
  <2>1. q.disabled \subseteq Out(q)
    BY <1>2 DEF IsOver, RequestsOK, Indicators
  <2>2. ASSUME ~SameId PROVE q.shown = Out(q) /\ \A b \in q.shown : q.progress[b] = b
    <3>1. p.shown = Out(p) /\ \A b \in p.shown : p.progress[b] = b
      BY <2>2 DEF RequestsOK, Indicators
    <3>2. p.object[c] = c
      BY <1>1, <2>2 DEF OwnObject
    <3> QED
      BY <1>2, <3>1, <3>2 DEF IsOver
  <2> QED
    BY <2>1, <2>2 DEF Indicators
<1> QED
  BY <1>2, <1>3, <1>4, <1>5 DEF RequestsOK

(* The behaviours after the commands of an answer to c, which led from p   *)
(* to d, when the form of c is attached again.                             *)
LEMMA FormOver ==
  ASSUME NEW p \in PageType, RequestsOK(p), BehavioursOK(p), NEW c \in Out(p),
         NEW d \in PageType, BehavioursFollow(p, d),
         \A b \in Copy : p.object[b] # NoCopy => d.form[b] = p.form[b],
         NEW q \in PageType, SameMarkup(d, q), q.form = d.form, Out(q) = Out(p) \ {c},
         \A n \in Name : q.behaviour[n] =
           IF HasForm(d, c) /\ n \in Within[Form] \cap Present(d)
           THEN "attached" ELSE d.behaviour[n]
  PROVE  BehavioursOK(q)
<1> SUFFICES ASSUME trouble \cap {"no wrapper", "throws"} = {},
                    NEW n \in Present(q), q.behaviour[n] # "attached"
             PROVE  /\ q.behaviour[n] = "serialized"
                    /\ n \in Within[Form]
                    /\ \E b \in Out(q) : HasForm(q, b)
  BY DEF BehavioursOK
<1>1. n \in Name /\ n \in Present(d)
  BY DEF Present, SameMarkup
<1>2. q.behaviour[n] = d.behaviour[n] /\ ~(HasForm(d, c) /\ n \in Within[Form])
  BY <1>1
<1>3. ~NoWrapper
  BY DEF NoWrapper
<1>4. /\ n \in Present(p) /\ d.behaviour[n] = p.behaviour[n]
      /\ n \in Within[Form] => d.document[Form] = p.document[Form]
  BY <1>1, <1>2, <1>3 DEF BehavioursFollow
<1>5. /\ p.behaviour[n] = "serialized" /\ n \in Within[Form]
      /\ \E b \in Out(p) : HasForm(p, b)
  BY <1>2, <1>4 DEF BehavioursOK
<1>6. PICK b \in Out(p) : HasForm(p, b)
  BY <1>5
<1>7. d.form[b] = p.form[b]
  BY <1>6, OutHasObject
<1>8. HasForm(d, b) /\ HasForm(q, b)
  BY <1>4, <1>5, <1>6, <1>7 DEF HasForm, SameMarkup
<1>9. b # c
  BY <1>2, <1>5, <1>8
<1> QED
  BY <1>2, <1>4, <1>5, <1>6, <1>8, <1>9

-----------------------------------------------------------------------------
(* The steps, from a page to a page.                                       *)

LEMMA SendStep ==
  ASSUME NEW p, PageOK(p), NEW e \in Element \cap Present(p), NEW c, c = Current(p, e),
         MaySend(p, c), NEW q, q = BeforeSend(BeforeSerialize(p, c), c)
  PROVE  PageOK(q)
<1>1. /\ p \in PageType /\ ObjectsOK(p) /\ RequestsOK(p) /\ BehavioursOK(p)
  BY DEF PageOK
<1>2. c \in Copy /\ p.object[c] \in Copy
  <2>1. c \in p.instances /\ p.object[c] # NoCopy
    BY <1>1 DEF ObjectsOK, Bound
  <2> QED
    BY <1>1, <2>1 DEF PageType, Copies
<1>3. p.flight[c] = 0
  <2>1. c \notin Out(p) /\ p.flight[c] \in 0..2
    BY <1>1, <1>2 DEF MaySend, RequestsOK, OneAtATime, PageType
  <2> QED
    BY <1>2, <2>1 DEF Out
<1> DEFINE b == BeforeSerialize(p, c)
<1>4. /\ b \in PageType /\ SameMarkup(p, b) /\ SameRequests(p, b) /\ SameObjects(p, b)
      /\ \A n \in Name : b.behaviour[n] =
           IF HasForm(p, c) /\ n \in Within[Form] \cap Present(p)
           THEN "serialized" ELSE p.behaviour[n]
  <2>1. CASE HasForm(p, c)
    <3>1. b = DetachBehaviors(p, Within[Form], "serialize")
      BY <2>1 DEF BeforeSerialize
    <3> HIDE DEF b
    <3>2. /\ b \in PageType /\ SameMarkup(p, b) /\ SameRequests(p, b)
          /\ b.bound = p.bound /\ b.object = p.object /\ b.form = p.form
          /\ b.instances = p.instances
          /\ \A n \in Name : b.behaviour[n] = IF n \notin Within[Form] \cap Present(p)
                                              THEN p.behaviour[n] ELSE "serialized"
      BY <1>1, <3>1, DetachBehaviorsEffect
    <3> QED
      BY <2>1, <3>2 DEF SameObjects
  <2>2. CASE ~HasForm(p, c)
    BY <1>1, <2>2 DEF BeforeSerialize, SameMarkup, SameRequests, SameObjects
  <2> QED
    BY <2>1, <2>2
<1>5. q = BeforeSend(b, c)
  OBVIOUS
<1> HIDE DEF b
<1>6. /\ q \in PageType /\ SameMarkup(b, q) /\ SameObjects(b, q)
      /\ q.behaviour = b.behaviour
      /\ q.shown = b.shown \union {c} /\ q.ajaxing = b.ajaxing \union {c}
      /\ q.disabled = b.disabled \union {c}
      /\ \A d \in Copy : q.flight[d] = IF d = c THEN b.flight[d] + 1 ELSE b.flight[d]
      /\ \A d \in Copy : q.progress[d] = IF d = b.object[c] THEN c ELSE b.progress[d]
  <2>1. b.object[c] \in Copy /\ b.flight[c] < 2
    BY <1>2, <1>3, <1>4 DEF SameRequests, SameObjects
  <2> QED
    BY <1>2, <1>4, <1>5, <2>1, BeforeSendEffect
<1>7. /\ SameMarkup(p, q) /\ SameObjects(p, q)
      /\ q.shown = p.shown \union {c} /\ q.ajaxing = p.ajaxing \union {c}
      /\ q.disabled = p.disabled \union {c}
      /\ \A d \in Copy : q.flight[d] = IF d = c THEN 1 ELSE p.flight[d]
      /\ \A d \in Copy : q.progress[d] = IF d = p.object[c] THEN c ELSE p.progress[d]
  BY <1>3, <1>4, <1>6 DEF SameMarkup, SameObjects, SameRequests
<1>8. ObjectsOK(q)
  BY <1>1, <1>7, SameObjectsOK
<1>9. Out(q) = Out(p) \union {c}
  BY <1>2, <1>7 DEF Out
<1>10. RequestsOK(q)
  <2>1. \A d \in q.shown \union q.ajaxing \union q.disabled : q.object[d] # NoCopy
    <3>1. q.object = p.object /\ p.object[c] # NoCopy
      BY <1>2, <1>7, CopyParts DEF SameObjects
    <3> QED
      BY <1>1, <1>7, <3>1 DEF RequestsOK
  <2>2. OneAtATime(q)
    BY <1>1, <1>7, <1>9 DEF RequestsOK, OneAtATime
  <2>3. Indicators(q)
    <3>1. q.disabled \subseteq Out(q)
      BY <1>1, <1>7, <1>9 DEF RequestsOK, Indicators
    <3>2. ASSUME ~SameId PROVE q.shown = Out(q) /\ \A d \in q.shown : q.progress[d] = d
      <4>1. p.shown = Out(p) /\ \A d \in p.shown : p.progress[d] = d
        BY <1>1, <3>2 DEF RequestsOK, Indicators
      <4>2. p.object[c] = c
        BY <1>1, <1>2, <3>2, CopyParts DEF ObjectsOK, OwnObject
      <4>3. p.shown \subseteq Copy
        BY <1>1 DEF PageType
      <4> QED
        BY <1>2, <1>7, <1>9, <4>1, <4>2, <4>3
    <3> QED
      BY <3>1, <3>2 DEF Indicators
  <2> QED
    BY <2>1, <2>2, <2>3 DEF RequestsOK
<1>11. BehavioursOK(q)
  <2> SUFFICES ASSUME trouble \cap {"no wrapper", "throws"} = {},
                      NEW n \in Present(q), q.behaviour[n] # "attached"
               PROVE  /\ q.behaviour[n] = "serialized"
                      /\ n \in Within[Form]
                      /\ \E d \in Out(q) : HasForm(q, d)
    BY DEF BehavioursOK
  <2>1. n \in Name /\ n \in Present(p)
    BY <1>7 DEF Present, SameMarkup
  <2>2. \A d : HasForm(p, d) => HasForm(q, d)
    BY <1>7 DEF HasForm, SameMarkup, SameObjects
  <2>3. CASE HasForm(p, c) /\ n \in Within[Form]
    BY <1>4, <1>6, <1>9, <2>1, <2>2, <2>3
  <2>4. CASE ~(HasForm(p, c) /\ n \in Within[Form])
    <3>1. q.behaviour[n] = p.behaviour[n]
      BY <1>4, <1>6, <2>1, <2>4
    <3>2. /\ p.behaviour[n] = "serialized" /\ n \in Within[Form]
          /\ \E d \in Out(p) : HasForm(p, d)
      BY <1>1, <2>1, <3>1 DEF BehavioursOK
    <3> QED
      BY <1>9, <2>2, <3>1, <3>2
  <2> QED
    BY <2>3, <2>4
<1> QED
  BY <1>6, <1>8, <1>10, <1>11 DEF PageOK

(* The page d, when the indicator of c and, in the course of an answer to  *)
(* c, perhaps other things are gone from the page p.                       *)
Handled(p, c, d) ==
  /\ d \in PageType /\ ObjectsOK(d) /\ BehavioursFollow(p, d)
  /\ d.shown = p.shown \ {p.progress[p.object[c]]} /\ d.disabled = p.disabled \ {c}
  /\ d.progress = p.progress /\ d.flight = p.flight
  /\ p.ajaxing \ {c} \subseteq d.ajaxing /\ d.ajaxing \subseteq p.ajaxing
  /\ \A b \in Copy : p.object[b] # NoCopy =>
       d.object[b] = p.object[b] /\ d.form[b] = p.form[b]

LEMMA AnswerHandled ==
  ASSUME NEW p, PageOK(p), p.last = page.last, NEW c \in Out(p),
         NEW r, r = RemoveIndicator(p, c),
         NEW d, d = r \/ d \in Commands(r, c[1])
  PROVE  Handled(p, c, d) /\ d.ajaxing = p.ajaxing
<1>1. p \in PageType /\ ObjectsOK(p)
  BY DEF PageOK
<1>2. /\ r \in PageType /\ SameMarkup(p, r) /\ SameObjects(p, r)
      /\ r.behaviour = p.behaviour /\ r.ajaxing = p.ajaxing
      /\ r.flight = p.flight /\ r.progress = p.progress
      /\ r.shown = p.shown \ {p.progress[p.object[c]]} /\ r.disabled = p.disabled \ {c}
  BY <1>1, RemoveIndicatorEffect
<1>3. ObjectsOK(r) /\ r.last = page.last /\ c[1] \in Element
  BY <1>1, <1>2, SameObjectsOK, CopyParts DEF SameMarkup, Out
<1>4. d \in PageType /\ ObjectsOK(d) /\ Keeps(r, d) /\ BehavioursFollow(r, d)
  BY <1>2, <1>3, CommandsEffect, NoCommand
<1>5. BehavioursFollow(p, d)
  BY <1>2, <1>4 DEF BehavioursFollow, SameMarkup, Present
<1>6. \A b \in Copy : p.object[b] # NoCopy =>
        d.object[b] = p.object[b] /\ d.form[b] = p.form[b]
  BY <1>2, <1>4 DEF Keeps, SameObjects
<1> QED
  BY <1>2, <1>4, <1>5, <1>6 DEF Handled, Keeps, SameRequests

(* The form is attached again, and the request is over.                    *)
LEMMA AnswerOver ==
  ASSUME NEW p, PageOK(p), NEW c \in Out(p), NEW d, Handled(p, c, d),
         NEW a, a = AttachForm(d, c),
         NEW m \in PageType, SameMarkup(a, m), SameObjects(a, m), m.behaviour = a.behaviour,
         m.shown = a.shown, m.disabled = a.disabled, m.progress = a.progress,
         m.flight = a.flight,
         p.ajaxing \ {c} \subseteq m.ajaxing, m.ajaxing \subseteq p.ajaxing,
         AllComplete => m.ajaxing = p.ajaxing \ {c},
         NEW q, q = Over(m, c)
  PROVE  PageOK(q)
<1>1. p \in PageType /\ ObjectsOK(p) /\ RequestsOK(p) /\ BehavioursOK(p)
  BY DEF PageOK
<1>2. /\ a \in PageType /\ ObjectsOK(a)
      /\ SameMarkup(d, a) /\ SameRequests(d, a) /\ SameObjects(d, a)
      /\ \A n \in Name : a.behaviour[n] = IF HasForm(d, c) /\ n \in Within[Form] \cap Present(d)
                                          THEN "attached" ELSE d.behaviour[n]
  BY AttachFormEffect DEF Handled
<1>3. c \in Copy /\ m.flight[c] > 0
  BY <1>2 DEF Out, Handled, SameRequests
<1>4. /\ q \in PageType /\ SameMarkup(m, q) /\ SameObjects(m, q)
      /\ q.behaviour = m.behaviour /\ q.ajaxing = m.ajaxing /\ q.progress = m.progress
      /\ q.shown = m.shown /\ q.disabled = m.disabled
      /\ \A b \in Copy : q.flight[b] = IF b = c THEN m.flight[b] - 1 ELSE m.flight[b]
  BY <1>3, OverEffect
<1>5. SameMarkup(d, q) /\ SameMarkup(a, q) /\ SameObjects(d, q) /\ SameObjects(a, q)
  BY <1>2, <1>4 DEF SameMarkup, SameObjects
<1>6. IsOver(p, c, q)
  BY <1>2, <1>4, <1>5 DEF IsOver, Handled, SameRequests, SameObjects
<1>7. RequestsOK(q) /\ Out(q) = Out(p) \ {c}
  BY <1>1, <1>4, <1>6, RequestOver DEF ObjectsOK
<1>8. ObjectsOK(q)
  BY <1>2, <1>5, SameObjectsOK
<1>9. BehavioursOK(q)
  <2>1. /\ d \in PageType /\ BehavioursFollow(p, d)
        /\ \A b \in Copy : p.object[b] # NoCopy => d.form[b] = p.form[b]
    BY DEF Handled
  <2>2. q.form = d.form
    BY <1>5 DEF SameObjects
  <2>3. \A n \in Name : q.behaviour[n] =
          IF HasForm(d, c) /\ n \in Within[Form] \cap Present(d)
          THEN "attached" ELSE d.behaviour[n]
    BY <1>2, <1>4
  <2> QED
    BY <1>1, <1>4, <1>5, <1>7, <2>1, <2>2, <2>3, FormOver
<1> QED
  BY <1>4, <1>7, <1>8, <1>9 DEF PageOK

LEMMA SuccessStep ==
  ASSUME NEW p, PageOK(p), p.last = page.last, NEW c \in Out(p),
         NEW d \in Commands(RemoveIndicator(p, c), c[1]),
         NEW q, q = Over(Complete(AttachForm(d, c), c), c)
  PROVE  PageOK(q)
<1>1. Handled(p, c, d) /\ d.ajaxing = p.ajaxing
  BY AnswerHandled
<1> DEFINE a == AttachForm(d, c)
           m == Complete(a, c)
<1>2. a \in PageType /\ SameRequests(d, a)
  BY <1>1, AttachFormEffect DEF Handled
<1> HIDE DEF a
<1>3. /\ m \in PageType /\ SameMarkup(a, m) /\ SameObjects(a, m)
      /\ m.behaviour = a.behaviour /\ m.ajaxing = a.ajaxing \ {c}
      /\ m.flight = a.flight /\ m.progress = a.progress
      /\ m.shown = a.shown /\ m.disabled = a.disabled
  BY <1>2, CompleteEffect
<1>4. m.ajaxing = p.ajaxing \ {c}
  BY <1>1, <1>2, <1>3 DEF SameRequests
<1>5. a = AttachForm(d, c) /\ q = Over(m, c)
  BY DEF a
<1> HIDE DEF m
<1> QED
  BY <1>1, <1>3, <1>4, <1>5, AnswerOver

LEMMA FailureStep ==
  ASSUME NEW p, PageOK(p), NEW c \in Out(p), NEW q, q = Over(Error(Complete(p, c), c), c)
  PROVE  PageOK(q)
<1>1. p \in PageType /\ ObjectsOK(p)
  BY DEF PageOK
<1> DEFINE s == Complete(p, c)
           d == RemoveIndicator(s, c)
           a == AttachForm(d, c)
<1>2. /\ s \in PageType /\ SameMarkup(p, s) /\ SameObjects(p, s)
      /\ s.behaviour = p.behaviour /\ s.ajaxing = p.ajaxing \ {c}
      /\ s.flight = p.flight /\ s.progress = p.progress
      /\ s.shown = p.shown /\ s.disabled = p.disabled
  BY <1>1, CompleteEffect
<1>3. q = Over(a, c)
  BY DEF Error
<1> HIDE DEF s
<1>4. /\ d \in PageType /\ SameMarkup(s, d) /\ SameObjects(s, d)
      /\ d.behaviour = s.behaviour /\ d.ajaxing = s.ajaxing
      /\ d.flight = s.flight /\ d.progress = s.progress
      /\ d.shown = s.shown \ {s.progress[s.object[c]]} /\ d.disabled = s.disabled \ {c}
  BY <1>2, RemoveIndicatorEffect
<1> HIDE DEF d
<1>5. SameMarkup(p, d) /\ SameObjects(p, d) /\ d.ajaxing = p.ajaxing \ {c}
  BY <1>2, <1>4 DEF SameMarkup, SameObjects
<1>6. ObjectsOK(d)
  BY <1>1, <1>5, SameObjectsOK
<1>7. BehavioursFollow(p, d)
  BY <1>2, <1>4, <1>5 DEF BehavioursFollow, SameMarkup, Present
<1>8. Handled(p, c, d)
  BY <1>2, <1>4, <1>5, <1>6, <1>7 DEF Handled, SameObjects
<1>9. /\ a \in PageType /\ SameRequests(d, a)
  BY <1>4, <1>6, AttachFormEffect
<1>10. a = AttachForm(d, c)
  OBVIOUS
<1> HIDE DEF a
<1>11. SameMarkup(a, a) /\ SameObjects(a, a) /\ a.ajaxing = p.ajaxing \ {c}
  BY <1>5, <1>9 DEF SameMarkup, SameObjects, SameRequests
<1> QED
  BY <1>3, <1>8, <1>9, <1>10, <1>11, AnswerOver

LEMMA UnverifiedStep ==
  ASSUME NEW p, PageOK(p), p.last = page.last, NEW c \in Out(p), ~AllComplete,
         NEW q, q = Over(Error(p, c), c)
  PROVE  PageOK(q)
<1> DEFINE d == RemoveIndicator(p, c)
           a == AttachForm(d, c)
<1>1. Handled(p, c, d) /\ d.ajaxing = p.ajaxing
  BY AnswerHandled
<1>2. q = Over(a, c)
  BY DEF Error
<1> HIDE DEF d
<1>3. a \in PageType /\ SameRequests(d, a)
  BY <1>1, AttachFormEffect DEF Handled
<1>4. a = AttachForm(d, c)
  OBVIOUS
<1> HIDE DEF a
<1>5. SameMarkup(a, a) /\ SameObjects(a, a) /\ a.ajaxing = p.ajaxing
  BY <1>1, <1>3 DEF SameMarkup, SameObjects, SameRequests
<1> QED
  BY <1>1, <1>2, <1>3, <1>4, <1>5, AnswerOver

(* A command that throws leaves the form as it is, and complete() out.     *)
LEMMA ThrowsStep ==
  ASSUME NEW p, PageOK(p), p.last = page.last, NEW c \in Out(p), "throws" \in trouble,
         NEW d \in Commands(RemoveIndicator(p, c), c[1]), NEW q, q = Over(d, c)
  PROVE  PageOK(q)
<1>1. Handled(p, c, d) /\ d.ajaxing = p.ajaxing
  BY AnswerHandled
<1>2. p \in PageType /\ ObjectsOK(p) /\ RequestsOK(p)
  BY DEF PageOK
<1>3. /\ q \in PageType /\ SameMarkup(d, q) /\ SameObjects(d, q)
      /\ q.behaviour = d.behaviour /\ q.ajaxing = d.ajaxing /\ q.progress = d.progress
      /\ q.shown = d.shown /\ q.disabled = d.disabled
      /\ \A b \in Copy : q.flight[b] = IF b = c THEN d.flight[b] - 1 ELSE d.flight[b]
  <2>1. d \in PageType /\ c \in Copy /\ d.flight[c] > 0
    BY <1>1 DEF Out, Handled
  <2> QED
    BY <2>1, OverEffect
<1>4. ~AllComplete
  BY DEF AllComplete
<1>5. IsOver(p, c, q)
  BY <1>1, <1>3, <1>4 DEF IsOver, Handled, SameObjects
<1>6. RequestsOK(q)
  BY <1>2, <1>3, <1>5, RequestOver DEF ObjectsOK
<1>7. ObjectsOK(q)
  BY <1>1, <1>3, SameObjectsOK DEF Handled
<1>8. BehavioursOK(q)
  BY DEF BehavioursOK
<1> QED
  BY <1>3, <1>6, <1>7, <1>8 DEF PageOK

-----------------------------------------------------------------------------
(* The inductive invariant, and what follows from it.                      *)

LEMMA LoadedPage == Init => PageOK(page)
<1> SUFFICES ASSUME Init PROVE PageOK(page)
  OBVIOUS
<1> DEFINE settings == [e \in Element |-> IF e \in Link THEN NoCopy ELSE <<e, 1>>]
           p == [document  |-> [n \in Name |-> 1], last |-> [n \in Name |-> 1],
                 behaviour |-> [n \in Name |-> "detached"],
                 bound     |-> [e \in Element |-> 0], instances |-> {},
                 settings  |-> settings,
                 object    |-> [c \in Copy |-> NoCopy], form |-> [c \in Copy |-> 0],
                 progress  |-> [c \in Copy |-> NoCopy],
                 shown     |-> {}, ajaxing |-> {}, disabled |-> {},
                 flight    |-> [c \in Copy |-> 0]]
<1>1. 1 \in 1..MaxCopies /\ 1 \in 0..MaxCopies /\ 0 \in 0..MaxCopies
  BY PageAssumption
<1>2. settings \in [Element -> Copies] /\ \A e \in Element \ Link : settings[e] = <<e, 1>>
  BY <1>1, CopyParts DEF Copies
<1>3. page = AttachBehaviors(p, Name)
  BY DEF Init
<1> HIDE DEF settings
<1>4. /\ p \in PageType
      /\ \A n \in Name : p.document[n] = 1 /\ p.last[n] = 1
      /\ \A e \in Element : p.bound[e] = 0
      /\ p.settings = settings
      /\ \A c \in Copy : p.object[c] = NoCopy /\ p.flight[c] = 0
      /\ p.instances = {} /\ p.shown = {} /\ p.ajaxing = {} /\ p.disabled = {}
  BY <1>1, <1>2 DEF PageType, Copies
<1> HIDE DEF p
<1>5. /\ page \in PageType
      /\ SameMarkup(p, page) /\ SameRequests(p, page)
      /\ \A n \in Name : page.behaviour[n] = IF n \in Name \cap Present(p)
                                             THEN "attached" ELSE p.behaviour[n]
      /\ \A e \in Element : page.bound[e] = IF e \in New(p) THEN 1 ELSE p.bound[e]
      /\ page.instances = p.instances \union Made(p)
      /\ \A c \in Copy : c \notin Made(p) => page.object[c] = p.object[c]
      /\ \A c \in Made(p) : page.object[c] = IF c[1] \in Link THEN c ELSE p.settings[c[1]]
  <2> HIDE DEF Init
  <2>1. p \in PageType /\ page = AttachBehaviors(p, Name)
    BY <1>3, <1>4
  <2> QED
    BY <2>1, AttachBehaviorsEffect
<1>6. Present(page) = Name /\ Present(p) = Name
  BY <1>4, <1>5 DEF SameMarkup, Present
<1>7. New(p) = Element
  <2>1. ASSUME NEW e \in Element \ Link PROVE p.settings[e] # NoCopy
    <3>1. p.settings[e] = <<e, 1>> /\ <<e, 1>> \in Copy
      BY <1>1, <1>2, <1>4, CopyParts
    <3> QED
      BY <3>1, CopyParts
  <2> QED
    BY <1>4, <1>6, <2>1, ElementIsName DEF New, NotBound
<1>8. \A c : c \in Made(p) <=> \E e \in Element : c = <<e, 1>>
  BY <1>4, <1>7, ElementIsName DEF Made, Current
<1>9. \A c \in Made(p) : c \in Copy /\ page.object[c] = c /\ c[2] = 1
  <2> SUFFICES ASSUME NEW e \in Element, NEW c, c = <<e, 1>>, c \in Made(p)
               PROVE  c \in Copy /\ page.object[c] = c /\ c[2] = 1
    BY <1>8
  <2>1. c \in Copy /\ c[1] = e /\ c[2] = 1
    BY <1>1, CopyParts
  <2>2. page.object[c] = IF e \in Link THEN c ELSE settings[e]
    BY <1>4, <1>5, <2>1
  <2> QED
    BY <1>2, <2>1, <2>2
<1>10. ObjectsOK(page)
  <2>1. \A c \in page.instances : page.object[c] # NoCopy
    BY <1>4, <1>5, <1>9, CopyParts
  <2>2. Bound(page)
    BY <1>4, <1>5, <1>7, <1>8, ElementIsName DEF Bound, SameMarkup, Current
  <2>3. FewExpired(page)
    BY <1>4, <1>5, <1>8, <1>9, CopyParts, ElementIsName
       DEF FewExpired, Expired, InDocument, SameMarkup
  <2>4. Numbered(page)
    <3>1. \A n \in Name : page.document[n] <= page.last[n]
      BY <1>4, <1>5 DEF SameMarkup
    <3>2. ASSUME NEW c \in Copy, page.object[c] # NoCopy PROVE c[2] <= page.last[c[1]]
      <4>1. c \in Made(p)
        BY <1>4, <1>5, <3>2
      <4>2. c[2] = 1 /\ page.last[c[1]] = 1
        BY <1>4, <1>5, <1>9, <4>1, CopyParts, ElementIsName DEF SameMarkup
      <4> QED
        BY <4>2
    <3> QED
      BY <3>1, <3>2 DEF Numbered
  <2>5. OwnObject(page)
    BY <1>4, <1>5, <1>9 DEF OwnObject
  <2>6. WrappersStay(page)
    BY <1>6 DEF WrappersStay
  <2> QED
    BY <2>1, <2>2, <2>3, <2>4, <2>5, <2>6 DEF ObjectsOK
<1>11. RequestsOK(page)
  <2>1. /\ page.shown = {} /\ page.ajaxing = {} /\ page.disabled = {}
        /\ \A c \in Copy : page.flight[c] = 0
    BY <1>4, <1>5 DEF SameRequests
  <2>2. Out(page) = {}
    BY <2>1 DEF Out
  <2> QED
    BY <2>1, <2>2 DEF RequestsOK, OneAtATime, Indicators
<1>12. BehavioursOK(page)
  BY <1>5, <1>6 DEF BehavioursOK
<1> QED
  BY <1>5, <1>10, <1>11, <1>12 DEF PageOK

(* PageOK of the page that a step leaves is PageOK after the step.         *)
LEMMA PageAfter ==
  ASSUME NEW q, PageOK(q), page' = q, UNCHANGED trouble
  PROVE  PageOK(page)'
<1>1. ObjectsOK(page)'
  BY DEF PageOK, ObjectsOK, Bound, FewExpired, Numbered, OwnObject, WrappersStay,
         Present, Current, Expired, InDocument, SameId, NoWrapper
<1>2. RequestsOK(page)'
  BY DEF PageOK, RequestsOK, OneAtATime, Indicators, Out, AllComplete, SameId
<1>3. BehavioursOK(page)'
  BY DEF PageOK, BehavioursOK, Present, Out, HasForm
<1> QED
  BY <1>1, <1>2, <1>3 DEF PageOK

LEMMA PageStep == PageOK(page) /\ [Next]_vars => PageOK(page)'
<1> SUFFICES ASSUME PageOK(page), [Next]_vars PROVE PageOK(page)'
  OBVIOUS
<1>1. ASSUME NEW e \in Element, EventResponse(e) PROVE PageOK(page)'
  <2> DEFINE c == Current(page, e)
             q == BeforeSend(BeforeSerialize(page, c), c)
  <2>1. e \in Element \cap Present(page) /\ MaySend(page, c) /\ page' = q /\ UNCHANGED trouble
    BY <1>1 DEF EventResponse
  <2>2. PageOK(q)
    BY <2>1, SendStep
  <2> HIDE DEF c, q
  <2> QED
    BY <2>1, <2>2, PageAfter
<1>2. ASSUME NEW c \in Copy, Success(c) PROVE PageOK(page)'
  <2>1. PICK d \in Commands(RemoveIndicator(page, c), c[1]) :
          page' = Over(Complete(AttachForm(d, c), c), c)
    BY <1>2 DEF Success
  <2>2. c \in Out(page) /\ UNCHANGED trouble
    BY <1>2 DEF Success, Out
  <2>3. PageOK(Over(Complete(AttachForm(d, c), c), c))
    BY <2>2, SuccessStep
  <2> QED
    BY <2>1, <2>2, <2>3, PageAfter
<1>3. ASSUME NEW c \in Copy, Failure(c) PROVE PageOK(page)'
  <2>1. c \in Out(page) /\ page' = Over(Error(Complete(page, c), c), c) /\ UNCHANGED trouble
    BY <1>3 DEF Failure, Out
  <2>2. PageOK(Over(Error(Complete(page, c), c), c))
    BY <2>1, FailureStep
  <2> QED
    BY <2>1, <2>2, PageAfter
<1>4. ASSUME NEW c \in Copy, Unverified(c) PROVE PageOK(page)'
  <2>1. c \in Out(page) /\ page' = Over(Error(page, c), c) /\ UNCHANGED trouble
    BY <1>4 DEF Unverified, Out
  <2>2. ~AllComplete
    BY <1>4 DEF Unverified, AllComplete
  <2>3. PageOK(Over(Error(page, c), c))
    BY <2>1, <2>2, UnverifiedStep
  <2> QED
    BY <2>1, <2>3, PageAfter
<1>5. ASSUME NEW c \in Copy, CommandThrows(c) PROVE PageOK(page)'
  <2>1. PICK d \in Commands(RemoveIndicator(page, c), c[1]) : page' = Over(d, c)
    BY <1>5 DEF CommandThrows
  <2>2. c \in Out(page) /\ "throws" \in trouble /\ UNCHANGED trouble
    BY <1>5 DEF CommandThrows, Out
  <2>3. PageOK(Over(d, c))
    BY <2>2, ThrowsStep
  <2> QED
    BY <2>1, <2>2, <2>3, PageAfter
<1>6. CASE UNCHANGED vars
  BY <1>6, PageAfter DEF vars
<1> QED
  BY <1>1, <1>2, <1>3, <1>4, <1>5, <1>6 DEF Next, Answer

PageInv == PageOK(page) /\ trouble \in Troubles

LEMMA Invariance == Spec => []PageInv
<1>1. Init => PageInv
  BY LoadedPage DEF Init, PageInv
<1>2. PageInv /\ [Next]_vars => PageInv'
  <2>1. [Next]_vars => UNCHANGED trouble
    BY DEF Next, Answer, EventResponse, Success, Failure, Unverified, CommandThrows, vars
  <2> QED
    BY <2>1, PageStep DEF PageInv
<1> QED
  BY <1>1, <1>2, PTL DEF Spec

(* The page is typed: whatever an answer replaces under requests that are  *)
(* out, what is marked, shown or listed is an Ajax object that was made,   *)
(* with its settings object, and no element is bound twice.                *)
THEOREM TypeCorrect == Spec => []TypeOK
<1>1. PageInv => TypeOK
  <2> SUFFICES ASSUME PageInv PROVE TypeOK
    OBVIOUS
  <2>1. page \in PageType /\ ObjectsOK(page) /\ RequestsOK(page) /\ trouble \in Troubles
    BY DEF PageInv, PageOK
  <2>2. page.instances \union page.shown \union page.ajaxing \union page.disabled
          \subseteq {c \in Copy : page.object[c] # NoCopy}
    BY <2>1 DEF PageType, ObjectsOK, RequestsOK
  <2> QED
    BY <2>1, <2>2 DEF TypeOK, PageType, Copies
<1> QED
  BY Invariance, <1>1, PTL

(* "Do not perform another Ajax command if one is already in progress":    *)
(* an Ajax object has one request at a time, and refuses another exactly   *)
(* while it has, unless error() or a command throws out of success().      *)
THEOREM OneRequestAtATime == Spec => []OneRequest
<1>1. PageInv => OneRequest
  BY DEF PageInv, PageOK, RequestsOK, OneAtATime, Out, AllComplete, OneRequest, InFlight
<1> QED
  BY Invariance, <1>1, PTL

(* Nothing stays disabled, and no indicator on the page, when the request  *)
(* it belongs to is over, whichever way it ended; with elements that come  *)
(* again under the id they had, the indicator may stay.                    *)
THEOREM NothingLeft == Spec => []NothingLeftBehind
<1>1. PageInv => NothingLeftBehind
  BY DEF PageInv, PageOK, RequestsOK, Indicators, Out, SameId, NothingLeftBehind, InFlight
<1> QED
  BY Invariance, <1>1, PTL

(* The behaviours that beforeSerialize() detached from the form are        *)
(* attached again when its last request is over, whatever the answers      *)
(* replaced meanwhile; new content has its behaviours.                     *)
THEOREM FormsAttached == Spec => []BehavioursAttached
<1>1. PageInv => BehavioursAttached
  BY DEF PageInv, PageOK, BehavioursOK, Out, BehavioursAttached, InFlight
<1> QED
  BY Invariance, <1>1, PTL

(* attach() and detach(), called again and again with any part of the page,*)
(* leave every Ajax element of the document with one Ajax object that is   *)
(* listed, and at most one expired object for a name in the list.          *)
THEOREM ElementsBound == Spec => []BoundOnce
<1>1. PageInv => BoundOnce
  BY DEF PageInv, PageOK, ObjectsOK, Bound, FewExpired, BoundOnce
<1> QED
  BY Invariance, <1>1, PTL
=============================================================================
