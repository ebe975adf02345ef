---------------------------- MODULE GatewayProofs ----------------------------
(***************************************************************************)
(* Admission and OneEnding hold in every behaviour of Gateway, whatever the *)
(* number of permits, clients and tokenizer threads and whatever the        *)
(* limits: main's check of the limits (LimitsAssumption) is the only fact   *)
(* about them used.                                                         *)
(***************************************************************************)
EXTENDS Gateway, SequenceTheorems, FiniteSetTheorems, TLAPS

Places == Working \cup {"away", "done", "gone"}

(* The part of the state that Admission depends on, and its types.          *)
AdmissionType ==
  /\ kind \in [Req -> Kinds]
  /\ pc \in [Req -> Places]
  /\ free \in Nat
  /\ rid \in Nat
  /\ id \in [Req -> Nat \cup {Unset}]
  /\ new \in [Req -> Int]

(* A request has passed the parameter checks when it is with the tokenizer, *)
(* has no id before it is valid, and keeps the number validation gave it.   *)
Validated ==
  \A r \in Req :
    /\ pc[r] = "tokenizing" => ~ParametersRefused(kind[r])
    /\ pc[r] \in {"away", "checking", "tokenizing"} => id[r] = Unset
    /\ id[r] # Unset => /\ ~ParametersRefused(kind[r])
                        /\ WithinLimits(kind[r])
                        /\ new[r] = NewTokens(kind[r])

AdmissionInv == AdmissionType /\ PermitsExact /\ Validated /\ IdsDistinct

(* The handlers at work when their places are p. *)
Held(p) == {r \in Req : p[r] \in Working}

------------------------------------------------------------------------------
(* What a step of one handler does to the number of permits held.           *)
LEMMA HeldFinite ==
  ASSUME NEW p
  PROVE  IsFiniteSet(Held(p)) /\ Cardinality(Held(p)) \in Nat
<1>1. IsFiniteSet(Held(p))
  BY PermitsAssumption, FS_Subset, Held(p) \subseteq Req DEF Held
<1>2. QED BY <1>1, FS_CardinalityType

LEMMA HeldGains ==
  ASSUME NEW p \in [Req -> Places], NEW r \in Req, NEW w \in Working, p[r] \notin Working
  PROVE  Cardinality(Held([p EXCEPT ![r] = w])) = Cardinality(Held(p)) + 1
<1>1. Held([p EXCEPT ![r] = w]) = Held(p) \cup {r} /\ r \notin Held(p)
  BY DEF Held
<1>2. QED BY <1>1, HeldFinite, FS_AddElement

LEMMA HeldLoses ==
  ASSUME NEW p \in [Req -> Places], NEW r \in Req, NEW w, w \notin Working, p[r] \in Working
  PROVE  Cardinality(Held([p EXCEPT ![r] = w])) = Cardinality(Held(p)) - 1
<1>1. Held([p EXCEPT ![r] = w]) = Held(p) \ {r} /\ r \in Held(p)
  BY DEF Held
<1>2. QED BY <1>1, HeldFinite, FS_RemoveElement, ZenonT(30)

LEMMA HeldKeeps ==
  ASSUME NEW p \in [Req -> Places], NEW r \in Req, NEW w, w \in Working <=> p[r] \in Working
  PROVE  Held([p EXCEPT ![r] = w]) = Held(p)
BY DEF Held

(* A request that passes both checks and is not refused for asking for      *)
(* nothing has at least one token to generate.                              *)
LEMMA ValidFits ==
  ASSUME NEW k \in Kinds, ~ParametersRefused(k), WithinLimits(k)
  PROVE  /\ NewTokens(k) \in Int /\ NewTokens(k) >= 1
         /\ k.len <= MaxInput /\ k.len + NewTokens(k) <= MaxTotal
<1>1. k.len \in Nat /\ k.max \in Nat \cup {-1}
  BY KindsAssumption DEF Kind, Unset
<1>2. CASE k.max # -1
  BY <1>1, <1>2 DEF ParametersRefused, WithinLimits, NewTokens, Unset
<1>3. CASE k.max = -1
  <2>1. k.len < MaxTotal
    BY <1>1, LimitsAssumption DEF WithinLimits
  <2>2. NewTokens(k) = MaxTotal - k.len
    BY <1>3, <2>1 DEF NewTokens, Unset
  <2>3. QED BY <1>1, <2>1, <2>2, LimitsAssumption DEF WithinLimits
<1>4. QED BY <1>2, <1>3

------------------------------------------------------------------------------
LEMMA InitAdmission == Init => AdmissionInv
<1>1. SUFFICES ASSUME Init PROVE AdmissionInv OBVIOUS
<1>2. AdmissionType
  BY <1>1, PermitsAssumption DEF Init, AdmissionType, Places, Working, Unset
<1>3. PermitsExact
  <2>1. Holders = {} BY <1>1 DEF Init, Holders, Working
  <2>2. QED BY <1>1, <2>1, FS_EmptySet, PermitsAssumption DEF Init, PermitsExact
<1>4. Validated /\ IdsDistinct
  BY <1>1 DEF Init, Validated, IdsDistinct, Unset
<1>5. QED BY <1>2, <1>3, <1>4 DEF AdmissionInv

(* A step that moves no handler, and gives no id, keeps everything. *)
LEMMA IdleStep ==
  ASSUME AdmissionInv, UNCHANGED <<handlerVars, entryVars>>
  PROVE  AdmissionInv'
BY DEF AdmissionInv, AdmissionType, PermitsExact, Holders, Validated, IdsDistinct, handlerVars, entryVars

(* Moving one handler keeps the invariant if the permits move with it, and  *)
(* it goes to the tokenizer checked and nowhere back to before it had an id. *)
LEMMA MoveStep ==
  ASSUME AdmissionInv, NEW r \in Req, NEW w \in Places,
         UNCHANGED <<kind, entryVars>>,
         pc' = [pc EXCEPT ![r] = w],
         \/ pc[r] \notin Working /\ w \in Working /\ free > 0 /\ free' = free - 1
         \/ pc[r] \in Working /\ w \notin Working /\ free' = free + 1
         \/ (w \in Working <=> pc[r] \in Working) /\ free' = free,
         w = "tokenizing" => ~ParametersRefused(kind[r]),
         w \in {"away", "checking", "tokenizing"} => id[r] = Unset
  PROVE  AdmissionInv'
<1> USE DEF AdmissionInv
<1>1. AdmissionType'
  BY DEF AdmissionType, entryVars
<1>2. PermitsExact'
  <2>1. Holders = Held(pc) /\ Holders' = Held([pc EXCEPT ![r] = w])
    BY DEF Holders, Held
  <2>2. pc \in [Req -> Places] /\ free \in Nat /\ free + Cardinality(Held(pc)) = Permits
    BY <2>1 DEF AdmissionType, PermitsExact
  <2>3. Cardinality(Held(pc)) \in Nat BY HeldFinite
  <2>4. CASE pc[r] \notin Working /\ w \in Working /\ free > 0 /\ free' = free - 1
    <3>1. Cardinality(Held([pc EXCEPT ![r] = w])) = Cardinality(Held(pc)) + 1
      BY <2>2, <2>4, HeldGains
    <3>2. Cardinality(Holders') = Cardinality(Held(pc)) + 1
      BY <2>1, <3>1
    <3>3. QED BY <2>2, <2>3, <2>4, <3>2 DEF PermitsExact
  <2>5. CASE pc[r] \in Working /\ w \notin Working /\ free' = free + 1
    <3>1. Cardinality(Held([pc EXCEPT ![r] = w])) = Cardinality(Held(pc)) - 1
      BY <2>2, <2>5, HeldLoses
    <3>2. Cardinality(Holders') = Cardinality(Held(pc)) - 1
      BY <2>1, <3>1
    <3>3. QED BY <2>2, <2>3, <2>5, <3>2 DEF PermitsExact
  <2>6. CASE (w \in Working <=> pc[r] \in Working) /\ free' = free
    BY <2>1, <2>2, <2>6, HeldKeeps DEF PermitsExact
  <2>7. QED BY <2>4, <2>5, <2>6
<1>3. Validated'
  BY DEF Validated, AdmissionType, entryVars
<1>4. IdsDistinct'
  BY DEF IdsDistinct, entryVars
<1>5. QED BY <1>1, <1>2, <1>3, <1>4

(* Validation ends well: the request gets the next id and its tokens.       *)
LEMMA TakeIdStep ==
  ASSUME AdmissionInv, NEW r \in Req, TakeId(r)
  PROVE  AdmissionInv'
<1> USE DEF AdmissionInv
<1>1. /\ pc[r] = "tokenizing" /\ WithinLimits(kind[r]) /\ ~ParametersRefused(kind[r])
      /\ pc' = [pc EXCEPT ![r] = "admitting"] /\ kind' = kind /\ free' = free
      /\ id' = [id EXCEPT ![r] = rid] /\ rid' = rid + 1
      /\ new' = [new EXCEPT ![r] = NewTokens(kind[r])]
  BY DEF TakeId, Validated
<1>2. kind[r] \in Kinds /\ NewTokens(kind[r]) \in Int
  BY <1>1, ValidFits DEF AdmissionType
<1>3. AdmissionType'
  BY <1>1, <1>2 DEF AdmissionType, Places, Working
<1>4. PermitsExact'
  <2>1. Holders = Held(pc) /\ Holders' = Held(pc')
    BY DEF Holders, Held
  <2>2. Holders' = Holders
    BY <1>1, <2>1, HeldKeeps DEF AdmissionType, Working
  <2>3. QED BY <1>1, <2>2 DEF PermitsExact
<1>5. Validated'
  BY <1>1 DEF Validated, AdmissionType
<1>6. IdsDistinct'
  BY <1>1 DEF IdsDistinct, AdmissionType, Unset
<1>7. QED BY <1>3, <1>4, <1>5, <1>6

LEMMA StepAdmission == AdmissionInv /\ [Next]_vars => AdmissionInv'
<1> SUFFICES ASSUME AdmissionInv, [Next]_vars PROVE AdmissionInv' OBVIOUS
<1> USE DEF Places, Working
<1>1. ASSUME NEW r \in Req, Acquire(r) PROVE AdmissionInv'
  <2>1. id[r] = Unset BY <1>1 DEF Acquire, AdmissionInv, Validated
  <2>2. QED BY <1>1, <2>1, MoveStep DEF Acquire
<1>2. ASSUME NEW r \in Req, Overloaded(r) PROVE AdmissionInv'
  BY <1>2, MoveStep DEF Overloaded
<1>3. ASSUME NEW r \in Req, RefuseParameters(r) PROVE AdmissionInv'
  BY <1>3, MoveStep DEF RefuseParameters, Leave
<1>4. ASSUME NEW r \in Req, AskTokenizer(r) PROVE AdmissionInv'
  <2>1. id[r] = Unset BY <1>4 DEF AskTokenizer, AdmissionInv, Validated
  <2>2. QED BY <1>4, <2>1, MoveStep DEF AskTokenizer
<1>5. ASSUME NEW r \in Req, RefuseInput(r) PROVE AdmissionInv'
  BY <1>5, MoveStep DEF RefuseInput, Leave
<1>6. ASSUME NEW r \in Req, AppendEntry(r) PROVE AdmissionInv'
  BY <1>6, MoveStep DEF AppendEntry
<1>7. ASSUME NEW r \in Req, ReadEnd(r) PROVE AdmissionInv'
  <2>1. pc[r] = "open" BY <1>7 DEF ReadEnd, Takes
  <2>2. CASE kind[r].stream \/ (got[r] > 0 /\ prefilled[r])
    BY <1>7, <2>1, <2>2, MoveStep DEF ReadEnd, Leave
  <2>3. CASE ~(kind[r].stream \/ (got[r] > 0 /\ prefilled[r]))
    BY <1>7, <2>3, IdleStep DEF ReadEnd, handlerVars, entryVars
  <2>4. QED BY <2>2, <2>3
<1>8. ASSUME NEW r \in Req, ReadErr(r) PROVE AdmissionInv'
  BY <1>8, MoveStep DEF ReadErr, Takes, Leave
<1>9. ASSUME NEW r \in Req, Incomplete(r) PROVE AdmissionInv'
  BY <1>9, MoveStep DEF Incomplete, Leave
<1>10. ASSUME NEW r \in Req, Disconnect(r) PROVE AdmissionInv'
  BY <1>10, MoveStep DEF Disconnect, Leave
<1>11. ASSUME NEW r \in Req, Prefill(r) \/ Generate(r) \/ Finish(r) \/ Fail(r) \/ ReadPrefill(r) \/ ReadToken(r)
       PROVE  AdmissionInv'
  BY <1>11, IdleStep DEF Prefill, Generate, Finish, Fail, ReadPrefill, ReadToken
<1>12. ASSUME Forward \/ \E w \in 1..Workers : Tokenize(w) PROVE AdmissionInv'
  BY <1>12, IdleStep DEF Forward, Tokenize
<1>13. CASE UNCHANGED vars
  BY <1>13, IdleStep DEF vars
<1>14. QED
  BY <1>1, <1>2, <1>3, <1>4, <1>5, <1>6, <1>7, <1>8, <1>9, <1>10, <1>11, <1>12, <1>13, TakeIdStep
     DEF Next, Handler, Engine

(* What the invariant says of the requests let in. *)
LEMMA InvAdmission == AdmissionInv => Admission
<1>1. ASSUME AdmissionInv, NEW r \in Req, id[r] # Unset
      PROVE  new[r] >= 1 /\ kind[r].len <= MaxInput /\ kind[r].len + new[r] <= MaxTotal
  BY <1>1, ValidFits DEF AdmissionInv, AdmissionType, Validated
<1>2. QED BY <1>1 DEF AdmissionInv, Admission, AdmittedFit

(* Every permit is with a live handler or free, every entry has something   *)
(* to generate within the limits, and an id of its own (infer.rs:108-143,   *)
(* validation.rs:98-121, :279).                                             *)
THEOREM AdmissionHolds == Spec => []Admission
<1>1. Init => AdmissionInv BY InitAdmission
<1>2. AdmissionInv /\ [Next]_vars => AdmissionInv' BY StepAdmission
<1>3. AdmissionInv => Admission BY InvAdmission
<1>4. QED BY <1>1, <1>2, <1>3, PTL DEF Spec
------------------------------------------------------------------------------
(* What a client hears.                                                     *)

EventKinds == {"Prefill", "token", "End", "Err", "role", "finish"} \cup Endings
Event == [kind : EventKinds, n : Int]
Early == {"away", "checking", "tokenizing", "admitting"}

AnswerType ==
  /\ chan \in [Req -> Seq(Event)] /\ sent \in [Req -> Nat]
  /\ tx \in [Req -> {"none", "open", "generating", "closed"}]
  /\ prefilled \in [Req -> BOOLEAN] /\ got \in [Req -> Nat]
  /\ heard \in [Req -> Seq(Event)]

(* The messages the handler has read. *)
Read(r) == got[r] + IF prefilled[r] THEN 1 ELSE 0

(* The j-th message of the channel is the next of Prefill, the tokens and   *)
(* one End or error, and End is there after all the tokens asked for.       *)
Message(r, j) ==
  LET k == Read(r) + j IN
  \/ chan[r][j] = Plain("Prefill") /\ k = 1
  \/ chan[r][j] = Token(k - 1) /\ k >= 2
  \/ /\ tx[r] = "closed" /\ j = Len(chan[r])
     /\ \/ chan[r][j] = Plain("Err")
        \/ chan[r][j] = Plain("End") /\ k = sent[r] + 2 /\ sent[r] = new[r]

ChannelRight(r) ==
  /\ ~prefilled[r] => got[r] = 0
  /\ pc[r] \in Early => chan[r] = <<>> /\ sent[r] = 0 /\ tx[r] = "none" /\ ~prefilled[r]
  /\ pc[r] \in {"admitting", "open"} => id[r] # Unset
  /\ pc[r] = "open" =>
       /\ tx[r] # "none"
       /\ tx[r] = "open" => chan[r] = <<>> /\ sent[r] = 0 /\ ~prefilled[r]
       /\ tx[r] = "generating" => Len(chan[r]) + Read(r) = sent[r] + 1
  /\ \A j \in 1..Len(chan[r]) : Message(r, j)

HeardRight(r) ==
  /\ pc[r] \in Early => heard[r] = <<>>
  /\ pc[r] = "open" => Len(heard[r]) = IF kind[r].stream THEN got[r] + 1 ELSE 0
  /\ EndsRight(r)

AnswerInv ==
  /\ AnswerType /\ ~aborted
  /\ \A r \in Req : ChannelRight(r) /\ HeardRight(r)

(* A step of one request leaves what the others' clients hear alone. *)
Same(r) == /\ kind'[r] = kind[r] /\ pc'[r] = pc[r] /\ id'[r] = id[r] /\ new'[r] = new[r]
           /\ chan'[r] = chan[r] /\ tx'[r] = tx[r] /\ sent'[r] = sent[r]
           /\ prefilled'[r] = prefilled[r] /\ got'[r] = got[r] /\ heard'[r] = heard[r]

LEMMA SameRight ==
  ASSUME NEW r \in Req, Same(r), ChannelRight(r), HeardRight(r)
  PROVE  ChannelRight(r)' /\ HeardRight(r)'
BY DEF Same, ChannelRight, HeardRight, Message, Read, EndsRight, Heard

LEMMA HeardSame ==
  ASSUME NEW r \in Req, EndsRight(r), heard'[r] = heard[r], kind'[r] = kind[r], new'[r] = new[r],
         got'[r] = got[r], pc'[r] = "done" <=> pc[r] = "done"
  PROVE  EndsRight(r)'
BY DEF EndsRight, Heard

LEMMA ChannelSame ==
  ASSUME NEW r \in Req, ChannelRight(r), UNCHANGED <<chan, tx, sent, prefilled, got>>, new'[r] = new[r],
         pc'[r] \notin Early, pc'[r] = "open" => pc[r] = "open" /\ id'[r] = id[r], pc'[r] # "admitting"
  PROVE  ChannelRight(r)'
BY DEF ChannelRight, Message, Read

(* An ending is the last thing said, and said once. *)
LEMMA SayLast ==
  ASSUME AnswerType, NEW r \in Req, EndsRight(r), pc[r] # "done", pc'[r] = "done",
         kind'[r] = kind[r], new'[r] = new[r], got'[r] = got[r],
         NEW e \in Event, e.kind \in Endings, e.kind \in {"DONE", "answer"} => got[r] = new[r],
         heard'[r] = heard[r] \o <<e>>
  PROVE  EndsRight(r)'
<1> DEFINE h == heard[r]
           g == heard'[r]
<1>1. h \in Seq(Event) /\ Len(h) \in Nat /\ g = Append(h, e)
  <2>1. h \in Seq(Event)
    BY DEF AnswerType
  <2> QED BY <2>1, AppendIsConcat, LenProperties
<1>2. Len(g) = Len(h) + 1 /\ g[Len(h) + 1] = e /\ \A i \in 1..Len(h) : g[i] = h[i]
  BY <1>1, AppendProperties
<1> HIDE DEF h, g
<1>3. \A kinds : Heard(r, kinds) = {i \in 1..Len(h) : h[i].kind \in kinds}
  BY DEF Heard, h
<1>4. \A kinds : Heard(r, kinds)' = {i \in 1..Len(g) : g[i].kind \in kinds}
  BY DEF Heard, g
<1>5. \A kinds : Heard(r, kinds)' = Heard(r, kinds) \cup (IF e.kind \in kinds THEN {Len(h) + 1} ELSE {})
  <2> SUFFICES ASSUME NEW kinds
               PROVE  Heard(r, kinds)' = Heard(r, kinds) \cup (IF e.kind \in kinds THEN {Len(h) + 1} ELSE {})
    OBVIOUS
  <2>1. 1..Len(g) = 1..Len(h) \cup {Len(h) + 1} /\ Len(h) + 1 \notin 1..Len(h)
    BY <1>1, <1>2
  <2>2. {i \in 1..Len(g) : g[i].kind \in kinds}
        = {i \in 1..Len(h) : h[i].kind \in kinds} \cup (IF e.kind \in kinds THEN {Len(h) + 1} ELSE {})
    BY ONLY <1>2, <2>1
  <2> QED BY <1>3, <1>4, <2>2
<1>6. e.kind # "token"
  BY DEF Endings
<1>7. Heard(r, Endings)' = {Len(g)}
  BY <1>2, <1>5 DEF EndsRight
<1>8. Heard(r, {"token"})' = Heard(r, {"token"}) /\ \A i \in Heard(r, {"token"}) : g[i] = h[i]
  <2>1. Heard(r, {"token"})' = Heard(r, {"token"}) \cup (IF e.kind \in {"token"} THEN {Len(h) + 1} ELSE {})
    BY <1>5
  <2>2. Heard(r, {"token"}) \subseteq 1..Len(h)
    BY <1>3
  <2> QED BY <1>2, <1>6, <2>1, <2>2
<1>9. Heard(r, {"DONE", "answer"})' # {} => got[r] = new[r]
  BY <1>5 DEF EndsRight
<1> QED BY <1>7, <1>8, <1>9 DEF EndsRight, h, g

(* What is neither a token nor an ending changes nothing. *)
LEMMA SayMore ==
  ASSUME AnswerType, NEW r \in Req, EndsRight(r), pc[r] # "done", pc'[r] # "done",
         kind'[r] = kind[r], new'[r] = new[r],
         NEW e \in Event, heard'[r] = heard[r] \o <<e>>,
         \/ e.kind \in {"role", "finish"} /\ got'[r] = got[r]
         \/ /\ kind[r].stream /\ got'[r] = got[r] + 1 /\ e = Token(got[r] + 1)
            /\ Len(heard[r]) = got[r] + 1
  PROVE  EndsRight(r)' /\ Len(heard'[r]) = Len(heard[r]) + 1
<1> DEFINE h == heard[r]
           g == heard'[r]
<1>1. h \in Seq(Event) /\ Len(h) \in Nat /\ g = Append(h, e)
  <2>1. h \in Seq(Event)
    BY DEF AnswerType
  <2> QED BY <2>1, AppendIsConcat, LenProperties
<1>2. Len(g) = Len(h) + 1 /\ g[Len(h) + 1] = e /\ \A i \in 1..Len(h) : g[i] = h[i]
  BY <1>1, AppendProperties
<1> HIDE DEF h, g
<1>3. \A kinds : Heard(r, kinds) = {i \in 1..Len(h) : h[i].kind \in kinds}
  BY DEF Heard, h
<1>4. \A kinds : Heard(r, kinds)' = {i \in 1..Len(g) : g[i].kind \in kinds}
  BY DEF Heard, g
<1>5. \A kinds : Heard(r, kinds)' = Heard(r, kinds) \cup (IF e.kind \in kinds THEN {Len(h) + 1} ELSE {})
  BY <1>1, <1>2, <1>3, <1>4
<1>6. e.kind \notin Endings /\ got[r] \in Nat
  BY DEF Endings, Token, AnswerType
<1>7. Heard(r, Endings)' = {} /\ Heard(r, {"DONE", "answer"})' = {}
  <2>1. Heard(r, {"DONE", "answer"}) \subseteq Heard(r, Endings)
    BY <1>3 DEF Endings
  <2> QED BY <1>5, <1>6, <2>1 DEF EndsRight, Endings
<1>a. Heard(r, {"token"})' = Heard(r, {"token"}) \cup (IF e.kind \in {"token"} THEN {Len(h) + 1} ELSE {})
  BY <1>5
<1>b. Heard(r, {"token"}) \subseteq 1..Len(h)
  BY <1>3
<1>8. CASE e.kind \in {"role", "finish"} /\ got'[r] = got[r]
  <2>1. Heard(r, {"token"})' = Heard(r, {"token"}) /\ \A i \in Heard(r, {"token"}) : g[i] = h[i]
    BY <1>2, <1>a, <1>b, <1>8
  <2> QED BY <1>2, <1>7, <1>8, <2>1 DEF EndsRight, h, g
<1>9. CASE /\ kind[r].stream /\ got'[r] = got[r] + 1 /\ e = Token(got[r] + 1)
           /\ Len(h) = got[r] + 1
  <2>1. Heard(r, {"token"}) = 2..(got[r] + 1) /\ \A i \in Heard(r, {"token"}) : h[i] = Token(i - 1)
    BY <1>9 DEF EndsRight, h
  <2>2. e.kind \in {"token"} /\ Len(h) + 1 = got[r] + 2
    BY <1>6, <1>9 DEF Token
  <2>3. Heard(r, {"token"})' = 2..(got'[r] + 1)
    <3>1. Heard(r, {"token"})' = 2..(got[r] + 1) \cup {got[r] + 2}
      BY <1>a, <2>1, <2>2
    <3>2. 2..(got[r] + 1) \cup {got[r] + 2} = 2..(got[r] + 2)
      BY <1>6
    <3>3. got'[r] + 1 = got[r] + 2
      BY <1>6, <1>9
    <3> QED BY <3>1, <3>2, <3>3
  <2>4. ASSUME NEW i \in 2..(got'[r] + 1) PROVE g[i] = Token(i - 1)
    <3>1. CASE i = got[r] + 2
      BY <1>2, <1>6, <1>9, <3>1
    <3>2. CASE i # got[r] + 2
      <4>1. i \in 2..(got[r] + 1) /\ i \in 1..Len(h)
        BY <1>6, <1>9, <2>4, <3>2
      <4> QED BY <1>2, <2>1, <4>1
    <3> QED BY <3>1, <3>2
  <2> QED BY <1>2, <1>7, <1>9, <2>3, <2>4 DEF EndsRight, h, g
<1> QED BY <1>8, <1>9 DEF h
LEMMA ChanType ==
  ASSUME AnswerType, NEW r \in Req
  PROVE  chan[r] \in Seq(Event) /\ Len(chan[r]) \in Nat /\ got[r] \in Nat /\ sent[r] \in Nat /\ Read(r) \in Nat
BY LenProperties DEF AnswerType, Read

(* The handler reads the next message. *)
LEMMA HeadMessage ==
  ASSUME AnswerType, NEW r \in Req, ChannelRight(r), chan[r] # <<>>
  PROVE  Head(chan[r]) = chan[r][1] /\ Len(chan[r]) >= 1 /\ Message(r, 1)
<1>1. chan[r] \in Seq(Event) /\ Len(chan[r]) \in Nat
  BY ChanType
<1>2. Head(chan[r]) = chan[r][1] /\ Len(chan[r]) >= 1
  BY <1>1, HeadTailProperties, EmptySeq
<1> QED BY <1>1, <1>2 DEF ChannelRight

LEMMA ReadOn ==
  ASSUME AnswerType, NEW r \in Req, ChannelRight(r), pc[r] = "open", pc'[r] = "open",
         chan[r] # <<>>, chan'[r] = Tail(chan[r]),
         tx'[r] = tx[r], sent'[r] = sent[r], new'[r] = new[r], id'[r] = id[r],
         Read(r)' = Read(r) + 1, ~prefilled'[r] => got'[r] = 0
  PROVE  ChannelRight(r)'
<1> DEFINE c == chan[r]
           d == chan'[r]
<1>1. c \in Seq(Event) /\ Len(c) \in Nat /\ Read(r) \in Nat
  BY ChanType
<1>2. Len(d) = Len(c) - 1 /\ \A j \in 1..Len(d) : d[j] = c[j + 1]
  BY <1>1, HeadTailProperties
<1>3. Len(c) # 0
  BY <1>1, EmptySeq
<1> HIDE DEF c, d
<1>4. ASSUME NEW j \in 1..Len(d) PROVE Message(r, j)'
  <2>1. j + 1 \in 1..Len(c) /\ j \in Int
    BY <1>1, <1>2, <1>3, <1>4
  <2>2. Message(r, j + 1)
    BY <2>1 DEF ChannelRight, c
  <2>3. Read(r)' + j = Read(r) + (j + 1)
    BY <1>1, <2>1
  <2>4. d[j] = c[j + 1] /\ (j + 1 = Len(c) <=> j = Len(d))
    BY <1>1, <1>2, <2>1
  <2> DEFINE k == Read(r) + (j + 1)
  <2>5. \/ c[j + 1] = Plain("Prefill") /\ k = 1
        \/ c[j + 1] = Token(k - 1) /\ k >= 2
        \/ /\ tx[r] = "closed" /\ j + 1 = Len(c)
           /\ \/ c[j + 1] = Plain("Err")
              \/ c[j + 1] = Plain("End") /\ k = sent[r] + 2 /\ sent[r] = new[r]
    BY <2>2 DEF Message, c
  <2> HIDE DEF k
  <2>6. \/ d[j] = Plain("Prefill") /\ k = 1
        \/ d[j] = Token(k - 1) /\ k >= 2
        \/ /\ tx'[r] = "closed" /\ j = Len(d)
           /\ \/ d[j] = Plain("Err")
              \/ d[j] = Plain("End") /\ k = sent'[r] + 2 /\ sent'[r] = new'[r]
    BY <2>4, <2>5
  <2>7. k = Read(r)' + j
    BY <2>3 DEF k
  <2> QED BY <2>6, <2>7 DEF Message, d
<1>5. tx[r] = "generating" => Len(d) + Read(r)' = sent[r] + 1
  BY <1>1, <1>2 DEF ChannelRight, c
<1>6. tx[r] # "open"
  BY <1>3, EmptySeq DEF ChannelRight, c
<1> QED BY <1>4, <1>5, <1>6 DEF ChannelRight, Early, d

(* The last message is read, or the channel is dropped. *)
LEMMA Emptied ==
  ASSUME AnswerType, NEW r \in Req, ChannelRight(r), chan'[r] = <<>>, pc'[r] \in {"done", "gone"},
         prefilled'[r] = prefilled[r], got'[r] = got[r]
  PROVE  ChannelRight(r)'
<1>1. Len(chan'[r]) = 0
  BY EmptySeq
<1> QED BY <1>1 DEF ChannelRight, Early

(* The engine sends one message more. *)
LEMMA SendOn ==
  ASSUME AnswerType, NEW r \in Req, ChannelRight(r), pc[r] = "open", pc'[r] = "open",
         NEW m \in Event, chan'[r] = Append(chan[r], m), tx[r] \in {"open", "generating"}, id'[r] = id[r],
         prefilled'[r] = prefilled[r], got'[r] = got[r], new'[r] = new[r],
         \/ tx'[r] = "closed" /\ m = Plain("Err") /\ sent'[r] = sent[r]
         \/ tx'[r] = "closed" /\ tx[r] = "generating" /\ m = Plain("End") /\ sent'[r] = sent[r] /\ sent[r] = new[r]
         \/ tx'[r] = "generating" /\ tx[r] = "open" /\ m = Plain("Prefill") /\ sent'[r] = sent[r]
         \/ tx'[r] = "generating" /\ tx[r] = "generating" /\ m = Token(sent[r] + 1) /\ sent'[r] = sent[r] + 1
  PROVE  ChannelRight(r)'
<1> DEFINE c == chan[r]
           d == chan'[r]
<1>1. c \in Seq(Event) /\ Len(c) \in Nat /\ Read(r) \in Nat /\ sent[r] \in Nat
  BY ChanType
<1>2. Len(d) = Len(c) + 1 /\ d[Len(c) + 1] = m /\ \A j \in 1..Len(c) : d[j] = c[j]
  BY <1>1, AppendProperties
<1>3. Read(r)' = Read(r)
  BY DEF Read
<1>4. /\ tx[r] = "open" => Len(c) = 0 /\ Read(r) = 0 /\ sent[r] = 0
      /\ tx[r] = "generating" => Len(c) + Read(r) = sent[r] + 1
  BY EmptySeq DEF ChannelRight, Read
<1>5. \A j \in 1..Len(c) : \/ c[j] = Plain("Prefill") /\ Read(r) + j = 1
                           \/ c[j] = Token((Read(r) + j) - 1) /\ Read(r) + j >= 2
  <2> TAKE j \in 1..Len(c)
  <2>1. Message(r, j)
    BY DEF ChannelRight
  <2> QED BY <1>1, <2>1 DEF Message
<1> HIDE DEF c, d
<1>6. ASSUME NEW j \in 1..Len(c) PROVE Message(r, j)'
  <2> DEFINE k == Read(r) + j
  <2>1. \/ d[j] = Plain("Prefill") /\ k = 1
        \/ d[j] = Token(k - 1) /\ k >= 2
    BY <1>2, <1>5, <1>6
  <2>2. k = Read(r)' + j
    BY <1>3
  <2> HIDE DEF k
  <2> QED BY <2>1, <2>2 DEF Message, d
<1>7. PICK n \in Nat : n = Len(c) + 1
  BY <1>1
<1>8. Message(r, n)'
  <2> DEFINE k == Read(r) + n
  <2>1. k = Read(r)' + n /\ n = Len(d) /\ d[n] = m
    BY <1>2, <1>3, <1>7
  <2>2. tx[r] = "generating" => k = sent[r] + 2
    BY <1>1, <1>4, <1>7
  <2>3. tx[r] = "open" => k = 1
    BY <1>1, <1>4, <1>7
  <2> HIDE DEF k
  <2>4. CASE tx'[r] = "closed" /\ m = Plain("Err") /\ sent'[r] = sent[r]
    BY <2>1, <2>4 DEF Message, d
  <2>5. CASE tx'[r] = "closed" /\ tx[r] = "generating" /\ m = Plain("End") /\ sent'[r] = sent[r] /\ sent[r] = new[r]
    BY <2>1, <2>2, <2>5 DEF Message, d
  <2>6. CASE tx'[r] = "generating" /\ tx[r] = "open" /\ m = Plain("Prefill") /\ sent'[r] = sent[r]
    BY <2>1, <2>3, <2>6 DEF Message, d
  <2>7. CASE tx'[r] = "generating" /\ tx[r] = "generating" /\ m = Token(sent[r] + 1) /\ sent'[r] = sent[r] + 1
    <3>1. k - 1 = sent[r] + 1 /\ k >= 2
      BY <1>1, <2>2, <2>7
    <3>2. d[n] = Token(k - 1) /\ k >= 2
      BY <2>1, <2>7, <3>1
    <3> QED BY <2>1, <3>2 DEF Message, d
  <2> QED BY <2>4, <2>5, <2>6, <2>7
<1>10. \A j \in 1..Len(d) : Message(r, j)'
  <2>1. \A j \in 1..Len(d) : j \in 1..Len(c) \/ j = n
    BY <1>1, <1>2, <1>7
  <2> QED BY <1>6, <1>8, <2>1
<1>9. tx'[r] = "generating" => Len(d) + Read(r)' = sent'[r] + 1
  BY <1>1, <1>2, <1>3, <1>4
<1> QED BY <1>9, <1>10 DEF ChannelRight, Early, d
------------------------------------------------------------------------------
LEMMA EventTypes ==
  /\ \A k \in EventKinds : Plain(k) \in Event /\ Plain(k).kind = k /\ Plain(k).n = 0
  /\ \A i \in Int : Token(i) \in Event /\ Token(i).kind = "token" /\ Token(i).n = i
  /\ \A i \in Int : Answer(i) \in Event /\ Answer(i).kind = "answer"
BY DEF Event, EventKinds, Endings, Plain, Token, Answer

LEMMA InitAnswer == Init => AnswerInv
<1> SUFFICES ASSUME Init PROVE AnswerInv
  OBVIOUS
<1>1. AnswerType /\ ~aborted
  BY DEF Init, AnswerType
<1>2. ASSUME NEW r \in Req PROVE ChannelRight(r) /\ HeardRight(r)
  <2>1. chan[r] = <<>> /\ heard[r] = <<>> /\ pc[r] = "away" /\ got[r] = 0 /\ ~prefilled[r] /\ sent[r] = 0 /\ tx[r] = "none"
    BY DEF Init
  <2>2. Len(chan[r]) = 0 /\ Len(heard[r]) = 0
    BY <2>1, EmptySeq
  <2>3. \A kinds : Heard(r, kinds) = {}
    BY <2>2 DEF Heard
  <2> QED BY <2>1, <2>2, <2>3 DEF ChannelRight, HeardRight, EndsRight, Early
<1> QED BY <1>1, <1>2 DEF AnswerInv

(* The types of the channels and of what is heard. *)
LEMMA AnswerTypeStep == AdmissionInv /\ AnswerInv /\ [Next]_vars => AnswerType'
<1> SUFFICES ASSUME AdmissionInv, AnswerInv, Next PROVE AnswerType'
  BY DEF vars, channelVars, readerVars, AnswerInv, AnswerType
<1>0. AnswerType
  BY DEF AnswerInv
<1>1. ASSUME NEW r \in Req, NEW e \in Event, chan' = [chan EXCEPT ![r] = Append(@, e)]
      PROVE  chan' \in [Req -> Seq(Event)]
  <2>1. chan[r] \in Seq(Event) /\ Append(chan[r], e) \in Seq(Event)
    BY <1>0, AppendProperties DEF AnswerType
  <2> QED BY <1>0, <1>1, <2>1 DEF AnswerType
<1>2. ASSUME NEW r \in Req, NEW es \in Seq(Event), Tells(r, es) PROVE heard' \in [Req -> Seq(Event)]
  <2>1. heard[r] \in Seq(Event)
    BY <1>0 DEF AnswerType
  <2>2. heard[r] \o es \in Seq(Event)
    BY <2>1, ConcatProperties
  <2> QED BY <1>0, <1>2, <2>2 DEF AnswerType, Tells
<1>3. ASSUME NEW r \in Req, chan[r] # <<>>, chan' = [chan EXCEPT ![r] = Tail(@)]
      PROVE  chan' \in [Req -> Seq(Event)] /\ Head(chan[r]) \in Event
  <2>1. chan[r] \in Seq(Event) /\ Tail(chan[r]) \in Seq(Event) /\ Head(chan[r]) \in Event
    BY <1>0, <1>3, HeadTailProperties DEF AnswerType
  <2> QED BY <1>0, <1>3, <2>1 DEF AnswerType
<1>4. /\ <<>> \in Seq(Event) /\ \A e \in Event : <<e>> \in Seq(Event)
      /\ \A e, f \in Event : <<e, f>> \in Seq(Event)
  OBVIOUS
<1>5. \A k \in EventKinds : Plain(k) \in Event /\ <<Plain(k)>> \in Seq(Event)
  BY <1>4, EventTypes
<1>6. ASSUME NEW r \in Req, Overloaded(r) \/ RefuseParameters(r) \/ RefuseInput(r) \/ Incomplete(r)
      PROVE AnswerType'
  <2>1. \E k \in EventKinds : Tells(r, <<Plain(k)>>)
    BY <1>6 DEF Overloaded, RefuseParameters, RefuseInput, Incomplete, EventKinds, Endings
  <2>2. heard' \in [Req -> Seq(Event)]
    BY <1>2, <1>5, <2>1
  <2>3. UNCHANGED <<chan, tx, sent, prefilled, got>>
    BY <1>6 DEF Overloaded, RefuseParameters, RefuseInput, Incomplete, channelVars
  <2> QED BY <1>0, <2>2, <2>3 DEF AnswerType
<1>7. ASSUME NEW r \in Req, Acquire(r) \/ AskTokenizer(r) \/ TakeId(r) PROVE AnswerType'
  BY <1>0, <1>7 DEF Acquire, AskTokenizer, TakeId, channelVars, readerVars, AnswerType
<1>8. ASSUME NEW r \in Req, AppendEntry(r) PROVE AnswerType'
  <2>1. (IF kind[r].stream THEN <<Plain("role")>> ELSE <<>>) \in Seq(Event)
    BY <1>4, <1>5 DEF EventKinds
  <2>2. heard' \in [Req -> Seq(Event)]
    BY <1>2, <1>8, <2>1 DEF AppendEntry
  <2> QED BY <1>0, <1>8, <2>2 DEF AppendEntry, AnswerType
<1>9. ASSUME NEW r \in Req, Engine(r) PROVE AnswerType'
  <2>1. sent[r] + 1 \in Int /\ Token(sent[r] + 1) \in Event
    BY <1>0, EventTypes DEF AnswerType
  <2>2. chan' \in [Req -> Seq(Event)]
    BY <1>1, <1>5, <1>9, <2>1 DEF Engine, Prefill, Generate, Finish, Sends, EventKinds
  <2>3. sent[r] \in Nat
    BY <1>0 DEF AnswerType
  <2>4. sent' \in [Req -> Nat]
    <3>1. CASE Generate(r)
      BY <1>0, <2>3, <3>1 DEF Generate, AnswerType
    <3>2. CASE Prefill(r) \/ Finish(r)
      BY <1>0, <3>2 DEF Prefill, Finish, AnswerType
    <3> QED BY <1>9, <3>1, <3>2 DEF Engine
  <2>5. tx' \in [Req -> {"none", "open", "generating", "closed"}]
    <3>1. CASE Generate(r)
      BY <1>0, <3>1 DEF Generate, AnswerType
    <3>2. CASE Prefill(r) \/ Finish(r)
      BY <1>0, <3>2 DEF Prefill, Finish, AnswerType
    <3> QED BY <1>9, <3>1, <3>2 DEF Engine
  <2>6. UNCHANGED <<prefilled, got, heard>>
    BY <1>9 DEF Engine, Prefill, Generate, Finish, readerVars
  <2> QED BY <1>0, <2>2, <2>4, <2>5, <2>6 DEF AnswerType
<1>10. ASSUME NEW r \in Req, Fail(r) PROVE AnswerType'
  <2>1. chan' \in [Req -> Seq(Event)]
    BY <1>0, <1>1, <1>5, <1>10 DEF Fail, Sends, EventKinds, AnswerType
  <2> QED BY <1>0, <1>10, <2>1 DEF Fail, readerVars, AnswerType
<1>11. ASSUME NEW r \in Req, ReadPrefill(r) \/ ReadErr(r) PROVE AnswerType'
  <2>1. chan' \in [Req -> Seq(Event)]
    BY <1>3, <1>11 DEF ReadPrefill, ReadErr, Takes
  <2>2. ReadErr(r) => heard' \in [Req -> Seq(Event)]
    BY <1>2, <1>5 DEF ReadErr, EventKinds, Endings
  <2> QED BY <1>0, <1>11, <2>1, <2>2 DEF ReadPrefill, ReadErr, AnswerType
<1>12. ASSUME NEW r \in Req, ReadToken(r) PROVE AnswerType'
  <2>1. chan' \in [Req -> Seq(Event)] /\ Head(chan[r]) \in Event
    BY <1>3, <1>12 DEF ReadToken, Takes
  <2>2. (IF kind[r].stream THEN <<Head(chan[r])>> ELSE <<>>) \in Seq(Event)
    BY <1>4, <2>1
  <2>3. heard' \in [Req -> Seq(Event)]
    BY <1>2, <1>12, <2>2 DEF ReadToken
  <2>4. got' \in [Req -> Nat]
    <3>1. got[r] + 1 \in Nat
      BY <1>0 DEF AnswerType
    <3> QED BY <1>0, <1>12, <3>1 DEF ReadToken, AnswerType
  <2> QED BY <1>0, <1>12, <2>1, <2>3, <2>4 DEF ReadToken, AnswerType
<1>13. ASSUME NEW r \in Req, ReadEnd(r) PROVE AnswerType'
  <2>1. chan' \in [Req -> Seq(Event)] /\ Head(chan[r]) \in Event
    BY <1>3, <1>13 DEF ReadEnd, Takes
  <2>2. Answer(Head(chan[r]).n) \in Event
    BY <2>1, EventTypes DEF Event
  <2>3. Plain("finish") \in Event /\ Plain("DONE") \in Event
    BY <1>5 DEF EventKinds, Endings
  <2>4. (IF kind[r].stream THEN <<Plain("finish"), Plain("DONE")>> ELSE <<Answer(Head(chan[r]).n)>>) \in Seq(Event)
    BY <1>4, <2>2, <2>3
  <2>5. heard' \in [Req -> Seq(Event)]
    <3>1. CASE kind[r].stream \/ (got[r] > 0 /\ prefilled[r])
      BY <1>2, <1>13, <2>4, <3>1 DEF ReadEnd
    <3>2. CASE ~(kind[r].stream \/ (got[r] > 0 /\ prefilled[r]))
      BY <1>0, <1>13, <3>2 DEF ReadEnd, AnswerType
    <3> QED BY <3>1, <3>2
  <2> QED BY <1>0, <1>13, <2>1, <2>5 DEF ReadEnd, AnswerType
<1>14. ASSUME NEW r \in Req, Disconnect(r) PROVE AnswerType'
  BY <1>0, <1>4, <1>14 DEF Disconnect, readerVars, AnswerType
<1>15. ASSUME Forward \/ \E w \in 1..Workers : Tokenize(w) PROVE AnswerType'
  BY <1>0, <1>15 DEF Forward, Tokenize, channelVars, readerVars, AnswerType
<1> QED
  BY <1>6, <1>7, <1>8, <1>9, <1>10, <1>11, <1>12, <1>13, <1>14, <1>15 DEF Next, Handler
LEMMA RightStep ==
  ASSUME AnswerInv, AnswerType', ~aborted', NEW r \in Req, \A s \in Req \ {r} : Same(s),
         ChannelRight(r)', HeardRight(r)'
  PROVE  AnswerInv'
<1>1. ASSUME NEW s \in Req \ {r} PROVE ChannelRight(s)' /\ HeardRight(s)'
  BY <1>1, SameRight DEF AnswerInv
<1> QED BY <1>1 DEF AnswerInv

(* The permit and what the client is told when its handler ends. *)
LEMMA EndingStep ==
  ASSUME AdmissionInv, AnswerInv, AnswerType', NEW r \in Req, NEW k \in Endings \ {"DONE", "answer"},
         pc[r] # "done", pc' = [pc EXCEPT ![r] = "done"], Tells(r, <<Plain(k)>>),
         UNCHANGED <<kind, entryVars, tx, sent, prefilled, got, aborted>>,
         \/ chan' = chan
         \/ chan' = [chan EXCEPT ![r] = Tail(@)] /\ pc[r] = "open" /\ chan[r] # <<>> /\ Head(chan[r]) = Plain("Err")
  PROVE  AnswerInv'
<1>0. /\ AnswerType /\ ChannelRight(r) /\ HeardRight(r) /\ ~aborted'
      /\ pc \in [Req -> Places] /\ kind' = kind /\ id' = id /\ new' = new
  BY DEF AnswerInv, AdmissionInv, AdmissionType, entryVars
<1>1. pc'[r] = "done" /\ heard'[r] = heard[r] \o <<Plain(k)>>
  BY <1>0 DEF Tells, AnswerType
<1>2. \A s \in Req \ {r} : Same(s)
  BY <1>0 DEF Same, Tells, AnswerType
<1>3. HeardRight(r)'
  <2>1. Plain(k) \in Event /\ Plain(k).kind = k
    BY EventTypes DEF EventKinds
  <2>2. EndsRight(r)'
    BY <1>0, <1>1, <2>1, SayLast DEF HeardRight
  <2> QED BY <1>1, <2>2 DEF HeardRight, Early
<1>4. ChannelRight(r)'
  <2>1. CASE chan' = chan
    BY <1>0, <1>1, <2>1, ChannelSame DEF Early
  <2>2. CASE chan' = [chan EXCEPT ![r] = Tail(@)] /\ chan[r] # <<>> /\ Head(chan[r]) = Plain("Err")
    <3>1. Message(r, 1) /\ chan[r][1] = Plain("Err") /\ chan'[r] = Tail(chan[r]) /\ chan[r] \in Seq(Event)
      BY <1>0, <2>2, HeadMessage DEF AnswerType
    <3>2. Len(chan[r]) = 1
      BY <3>1 DEF Message, Plain, Token
    <3>3. chan'[r] = <<>>
      <4> DEFINE t == Tail(chan[r])
      <4>1. t \in Seq(Event) /\ Len(t) = 0
        BY <2>2, <3>1, <3>2, HeadTailProperties
      <4> HIDE DEF t
      <4>2. t = <<>>
        BY <4>1, EmptySeq
      <4> QED BY <3>1, <4>2 DEF t
    <3> QED BY <1>0, <1>1, <3>3, Emptied
  <2> QED BY <2>1, <2>2
<1> QED BY <1>0, <1>2, <1>3, <1>4, RightStep

LEMMA ReadEndStep ==
  ASSUME AdmissionInv, AnswerInv, AnswerType', NEW r \in Req, ReadEnd(r)
  PROVE  AnswerInv'
<1>0. /\ AnswerType /\ ChannelRight(r) /\ HeardRight(r) /\ ~aborted /\ pc[r] = "open"
      /\ pc \in [Req -> Places] /\ kind \in [Req -> Kinds] /\ kind' = kind /\ id' = id /\ new' = new
      /\ chan[r] # <<>> /\ Head(chan[r]).kind = "End" /\ chan' = [chan EXCEPT ![r] = Tail(@)]
      /\ UNCHANGED <<tx, sent, prefilled, got>>
  BY DEF AnswerInv, AdmissionInv, AdmissionType, entryVars, ReadEnd, Takes
<1>1. /\ chan[r][1] = Plain("End") /\ Len(chan[r]) = 1 /\ Read(r) + 1 = sent[r] + 2 /\ sent[r] = new[r]
      /\ Head(chan[r]) = Plain("End")
  <2>1. Message(r, 1) /\ Head(chan[r]) = chan[r][1]
    BY <1>0, HeadMessage
  <2>2. chan[r][1].kind = "End"
    BY <1>0, <2>1
  <2> QED BY <2>1, <2>2 DEF Message, Plain, Token
<1>2. prefilled[r] /\ got[r] = new[r]
  <2>1. got[r] \in Nat /\ sent[r] \in Nat /\ prefilled[r] \in BOOLEAN
    BY <1>0 DEF AnswerType
  <2>2. prefilled[r]
    BY <1>0, <1>1, <2>1 DEF ChannelRight, Read
  <2> QED BY <1>1, <2>1, <2>2 DEF Read
<1>3. got[r] > 0
  <2>1. id[r] # Unset
    BY <1>0 DEF ChannelRight
  <2>2. new[r] >= 1 /\ new[r] \in Int
    BY <1>0, <2>1, InvAdmission DEF Admission, AdmittedFit, AdmissionInv, AdmissionType
  <2> QED BY <1>2, <2>2
<1>4. /\ pc' = [pc EXCEPT ![r] = "done"] /\ aborted' = aborted
      /\ heard' = [heard EXCEPT ![r] = @ \o IF kind[r].stream THEN <<Plain("finish"), Plain("DONE")>>
                                            ELSE <<Answer(Head(chan[r]).n)>>]
  BY <1>2, <1>3 DEF ReadEnd, Leave, Tells
<1>5. \A s \in Req \ {r} : Same(s)
  BY <1>0, <1>4 DEF Same, AnswerType
<1>6. ChannelRight(r)'
  <2>1. chan'[r] = Tail(chan[r]) /\ chan[r] \in Seq(Event) /\ pc'[r] = "done"
    BY <1>0, <1>4 DEF AnswerType
  <2> DEFINE t == Tail(chan[r])
  <2>2. t \in Seq(Event) /\ Len(t) = 0
    BY <1>0, <1>1, <2>1, HeadTailProperties
  <2> HIDE DEF t
  <2>3. t = <<>>
    BY <2>2, EmptySeq
  <2>4. chan'[r] = <<>>
    BY <2>1, <2>3 DEF t
  <2> QED BY <1>0, <2>1, <2>4, Emptied
<1>7. pc'[r] = "done" /\ heard[r] \in Seq(Event)
  BY <1>0, <1>4 DEF AnswerType
<1>8. CASE ~kind[r].stream
  <2> DEFINE e == Answer(Head(chan[r]).n)
  <2>1. e \in Event /\ e.kind = "answer" /\ heard'[r] = heard[r] \o <<e>>
    BY <1>0, <1>1, <1>4, <1>8, EventTypes DEF AnswerType, Plain
  <2> HIDE DEF e
  <2>2. EndsRight(r)'
    BY <1>0, <1>2, <1>7, <2>1, SayLast DEF HeardRight, Endings
  <2> QED BY <1>0, <1>4, <1>5, <1>6, <1>7, <2>2, RightStep DEF HeardRight, Early
<1>9. CASE kind[r].stream
  <2> DEFINE h == heard[r]
             g == heard'[r]
  <2>0. Plain("finish") \in Event /\ Plain("DONE") \in Event
    BY EventTypes DEF EventKinds, Endings
  <2>1. g = h \o <<Plain("finish"), Plain("DONE")>> /\ h \in Seq(Event) /\ Len(h) \in Nat
    BY <1>0, <1>4, <1>7, <1>9, LenProperties DEF AnswerType
  <2>2. /\ Len(g) = Len(h) + 2 /\ \A i \in 1..Len(h) : g[i] = h[i]
        /\ g[Len(h) + 1] = Plain("finish") /\ g[Len(h) + 2] = Plain("DONE")
    <3>1. <<Plain("finish"), Plain("DONE")>> \in Seq(Event) /\ Len(<<Plain("finish"), Plain("DONE")>>) = 2
      BY <2>0
    <3>2. \A i \in 1..(Len(h) + 2) : g[i] = IF i <= Len(h) THEN h[i] ELSE <<Plain("finish"), Plain("DONE")>>[i - Len(h)]
      BY <2>1, <3>1, ConcatProperties
    <3>3. Len(g) = Len(h) + 2
      BY <2>1, <3>1, ConcatProperties
    <3> HIDE DEF h, g
    <3>4. g[Len(h) + 1] = <<Plain("finish"), Plain("DONE")>>[1] /\ g[Len(h) + 2] = <<Plain("finish"), Plain("DONE")>>[2]
      BY <2>1, <3>2
    <3>5. \A i \in 1..Len(h) : g[i] = h[i]
      BY <2>1, <3>2
    <3> QED BY <3>3, <3>4, <3>5
  <2> HIDE DEF h, g
  <2>3. /\ \A kinds : Heard(r, kinds) = {i \in 1..Len(h) : h[i].kind \in kinds}
        /\ \A kinds : Heard(r, kinds)' = {i \in 1..Len(g) : g[i].kind \in kinds}
    BY DEF Heard, h, g
  <2>4. Heard(r, Endings) = {} /\ Heard(r, {"token"}) = 2..(got[r] + 1)
        /\ \A i \in Heard(r, {"token"}) : h[i] = Token(i - 1)
    BY <1>0, <1>9 DEF HeardRight, EndsRight, h
  <2>5. g[Len(h) + 1].kind = "finish" /\ g[Len(h) + 2].kind = "DONE"
    BY <2>2 DEF Plain
  <2>6. \A i \in 1..Len(g) : i \in 1..Len(h) \/ i = Len(h) + 1 \/ i = Len(h) + 2
    BY <2>1, <2>2
  <2>7. Heard(r, Endings)' = {Len(g)}
    <3>1. {i \in 1..Len(h) : h[i].kind \in Endings} = {}
      BY <2>3, <2>4
    <3>2. {i \in 1..Len(g) : g[i].kind \in Endings} = {Len(g)}
      BY <2>1, <2>2, <2>5, <2>6, <3>1 DEF Endings
    <3> QED BY <2>3, <3>2
  <2>8. Heard(r, {"token"})' = Heard(r, {"token"}) /\ \A i \in Heard(r, {"token"}) : g[i] = h[i]
    <3>1. {i \in 1..Len(g) : g[i].kind \in {"token"}} = {i \in 1..Len(h) : h[i].kind \in {"token"}}
      BY <2>1, <2>2, <2>5, <2>6
    <3>2. Heard(r, {"token"}) = {i \in 1..Len(h) : h[i].kind \in {"token"}}
      BY <2>3
    <3>3. Heard(r, {"token"})' = {i \in 1..Len(g) : g[i].kind \in {"token"}}
      BY <2>3
    <3> QED BY <2>2, <3>1, <3>2, <3>3
  <2>9. EndsRight(r)'
    BY <1>0, <1>2, <1>7, <1>9, <2>4, <2>7, <2>8 DEF EndsRight, h, g
  <2> QED BY <1>0, <1>4, <1>5, <1>6, <1>7, <2>9, RightStep DEF HeardRight, Early
<1> QED BY <1>8, <1>9
LEMMA ReadTokenStep ==
  ASSUME AdmissionInv, AnswerInv, AnswerType', NEW r \in Req, ReadToken(r)
  PROVE  AnswerInv'
<1>0. /\ AnswerType /\ ChannelRight(r) /\ HeardRight(r) /\ ~aborted' /\ pc[r] = "open"
      /\ pc \in [Req -> Places] /\ pc' = pc /\ kind' = kind /\ id' = id /\ new' = new
      /\ chan[r] # <<>> /\ Head(chan[r]).kind = "token" /\ chan' = [chan EXCEPT ![r] = Tail(@)]
      /\ UNCHANGED <<tx, sent, prefilled>> /\ got' = [got EXCEPT ![r] = @ + 1]
      /\ heard' = [heard EXCEPT ![r] = @ \o IF kind[r].stream THEN <<Head(chan[r])>> ELSE <<>>]
  BY DEF AnswerInv, AdmissionInv, AdmissionType, entryVars, handlerVars, ReadToken, Takes, Tells
<1>1. got[r] \in Nat /\ prefilled[r] \in BOOLEAN /\ chan[r] \in Seq(Event) /\ heard[r] \in Seq(Event)
  BY <1>0 DEF AnswerType
<1>2. Head(chan[r]) = Token(Read(r)) /\ Read(r) >= 1
  <2>1. Message(r, 1) /\ Head(chan[r]) = chan[r][1]
    BY <1>0, HeadMessage
  <2>2. chan[r][1].kind = "token"
    BY <1>0, <2>1
  <2>3. chan[r][1] = Token((Read(r) + 1) - 1) /\ Read(r) + 1 >= 2
    BY <2>1, <2>2 DEF Message, Plain
  <2>4. Read(r) \in Nat
    BY <1>0, ChanType
  <2>5. (Read(r) + 1) - 1 = Read(r) /\ Read(r) >= 1
    BY <2>3, <2>4
  <2> QED BY <2>1, <2>3, <2>5
<1>3. prefilled[r] /\ Read(r) = got[r] + 1
  <2>1. prefilled[r]
    BY <1>0, <1>1, <1>2 DEF ChannelRight, Read
  <2> QED BY <2>1 DEF Read
<1>4. got'[r] = got[r] + 1 /\ chan'[r] = Tail(chan[r])
  BY <1>0 DEF AnswerType
<1>5. \A s \in Req \ {r} : Same(s)
  BY <1>0 DEF Same, AnswerType
<1>6. ChannelRight(r)'
  <2>1. Read(r)' = Read(r) + 1
    BY <1>0, <1>1, <1>3, <1>4 DEF Read
  <2> QED BY <1>0, <1>3, <1>4, <2>1, ReadOn
<1>7. CASE kind[r].stream
  <2> DEFINE e == Head(chan[r])
  <2>1. e = Token(got[r] + 1) /\ e \in Event /\ heard'[r] = heard[r] \o <<e>> /\ Len(heard[r]) = got[r] + 1
    <3>1. e = Token(got[r] + 1)
      BY <1>2, <1>3
    <3>2. e \in Event
      BY <1>1, <3>1, EventTypes
    <3>3. heard'[r] = heard[r] \o <<e>>
      BY <1>0, <1>7 DEF AnswerType
    <3> QED BY <1>0, <1>7, <3>1, <3>2, <3>3 DEF HeardRight
  <2> HIDE DEF e
  <2>2. EndsRight(r)' /\ Len(heard'[r]) = Len(heard[r]) + 1
    BY <1>0, <1>4, <1>7, <2>1, SayMore DEF HeardRight
  <2>3. HeardRight(r)'
    BY <1>0, <1>1, <1>4, <1>7, <2>1, <2>2 DEF HeardRight, Early
  <2> QED BY <1>0, <1>5, <1>6, <2>3, RightStep
<1>8. CASE ~kind[r].stream
  <2>1. heard'[r] = heard[r]
    BY <1>0, <1>1, <1>8, ConcatEmptySeq DEF AnswerType
  <2>2. \A kinds : Heard(r, kinds)' = Heard(r, kinds)
    BY <2>1 DEF Heard
  <2>3. Heard(r, {"DONE", "answer"}) = {}
    <3>1. Heard(r, Endings) = {}
      BY <1>0 DEF HeardRight, EndsRight
    <3> QED BY <3>1 DEF Heard, Endings
  <2>4. EndsRight(r)'
    BY <1>0, <1>8, <2>1, <2>2, <2>3 DEF HeardRight, EndsRight
  <2>5. HeardRight(r)'
    BY <1>0, <1>8, <2>1, <2>4 DEF HeardRight, Early
  <2> QED BY <1>0, <1>5, <1>6, <2>5, RightStep
<1> QED BY <1>7, <1>8

LEMMA AppendEntryStep ==
  ASSUME AdmissionInv, AnswerInv, AnswerType', NEW r \in Req, AppendEntry(r)
  PROVE  AnswerInv'
<1>0. /\ AnswerType /\ ChannelRight(r) /\ HeardRight(r) /\ ~aborted'
      /\ pc[r] = "admitting" /\ pc'[r] = "open" /\ tx'[r] = "open"
      /\ pc \in [Req -> Places] /\ kind' = kind /\ id' = id /\ new' = new
      /\ UNCHANGED <<chan, sent, prefilled, got>> /\ pc' = [pc EXCEPT ![r] = "open"] /\ tx' = [tx EXCEPT ![r] = "open"]
      /\ heard' = [heard EXCEPT ![r] = @ \o IF kind[r].stream THEN <<Plain("role")>> ELSE <<>>]
  BY DEF AnswerInv, AdmissionInv, AdmissionType, entryVars, AppendEntry, Tells, AnswerType
<1>1. heard[r] = <<>> /\ chan[r] = <<>> /\ sent[r] = 0 /\ ~prefilled[r] /\ got[r] = 0 /\ id[r] # Unset
  BY <1>0 DEF ChannelRight, HeardRight, Early
<1>2. \A s \in Req \ {r} : Same(s)
  BY <1>0 DEF Same, AnswerType
<1>3. Len(chan'[r]) = 0
  BY <1>0, <1>1, EmptySeq
<1>4. ChannelRight(r)'
  BY <1>0, <1>1, <1>3 DEF ChannelRight, Early
<1>5. Len(heard[r]) = 0 /\ heard[r] \in Seq(Event)
  BY <1>0, <1>1, EmptySeq DEF AnswerType
<1>6. CASE kind[r].stream
  <2> DEFINE e == Plain("role")
  <2>1. e \in Event /\ e.kind = "role" /\ heard'[r] = heard[r] \o <<e>>
    BY <1>0, <1>6, EventTypes DEF AnswerType, EventKinds
  <2> HIDE DEF e
  <2>2. EndsRight(r)' /\ Len(heard'[r]) = Len(heard[r]) + 1
    BY <1>0, <2>1, SayMore DEF HeardRight
  <2> QED BY <1>0, <1>1, <1>2, <1>4, <1>5, <1>6, <2>2, RightStep DEF HeardRight, Early
<1>7. CASE ~kind[r].stream
  <2>1. heard'[r] = heard[r]
    BY <1>0, <1>5, <1>7, ConcatEmptySeq DEF AnswerType
  <2>2. EndsRight(r)'
    BY <1>0, <2>1, HeardSame DEF HeardRight
  <2> QED BY <1>0, <1>2, <1>4, <1>5, <1>7, <2>1, <2>2, RightStep DEF HeardRight, Early
<1> QED BY <1>6, <1>7

LEMMA EngineSends ==
  ASSUME AdmissionInv, AnswerInv, AnswerType', NEW r \in Req, Engine(r) \/ Fail(r)
  PROVE  AnswerInv'
<1>0. /\ AnswerType /\ ChannelRight(r) /\ HeardRight(r) /\ ~aborted' /\ pc[r] = "open" /\ pc' = pc
      /\ kind' = kind /\ id' = id /\ new' = new /\ UNCHANGED <<prefilled, got, heard>>
  BY DEF AnswerInv, Engine, Prefill, Generate, Finish, Fail, handlerVars, entryVars, readerVars
<1>1. \A s \in Req \ {r} : Same(s)
  BY <1>0 DEF Same, AnswerType, Engine, Prefill, Generate, Finish, Fail, Sends
<1>2. HeardRight(r)'
  BY <1>0, HeardSame DEF HeardRight
<1>3. /\ sent[r] \in Nat /\ Token(sent[r] + 1) \in Event
      /\ \A k \in {"Prefill", "End", "Err"} : Plain(k) \in Event
  BY <1>0, EventTypes DEF AnswerType, EventKinds
<1>4. ChannelRight(r)'
  <2>1. CASE Prefill(r)
    <3>1. /\ chan'[r] = Append(chan[r], Plain("Prefill")) /\ sent'[r] = sent[r]
          /\ tx[r] = "open" /\ tx'[r] = "generating"
      BY <1>0, <2>1 DEF Prefill, Sends, AnswerType
    <3> QED BY <1>0, <1>3, <3>1, SendOn
  <2>2. CASE Generate(r)
    <3>1. /\ chan'[r] = Append(chan[r], Token(sent[r] + 1)) /\ sent'[r] = sent[r] + 1
          /\ tx[r] = "generating" /\ tx'[r] = "generating"
      BY <1>0, <2>2 DEF Generate, Sends, AnswerType
    <3> QED BY <1>0, <1>3, <3>1, SendOn
  <2>3. CASE Finish(r)
    <3>1. /\ chan'[r] = Append(chan[r], Plain("End")) /\ sent'[r] = sent[r] /\ sent[r] = new[r]
          /\ tx[r] = "generating" /\ tx'[r] = "closed"
      BY <1>0, <2>3 DEF Finish, Sends, AnswerType
    <3> QED BY <1>0, <1>3, <3>1, SendOn
  <2>4. CASE Fail(r) /\ Sends(r, Plain("Err"))
    <3>1. /\ chan'[r] = Append(chan[r], Plain("Err")) /\ sent'[r] = sent[r]
          /\ tx[r] \in {"open", "generating"} /\ tx'[r] = "closed"
      BY <1>0, <2>4 DEF Fail, Sends, AnswerType
    <3> QED BY <1>0, <1>3, <3>1, SendOn
  <2>5. CASE Fail(r) /\ UNCHANGED chan
    <3>1. tx[r] \in {"open", "generating"} /\ tx'[r] = "closed" /\ sent' = sent
      BY <1>0, <2>5 DEF Fail, AnswerType
    <3>2. \A j \in 1..Len(chan[r]) : Message(r, j)
      BY <1>0 DEF ChannelRight
    <3>3. \A j \in 1..Len(chan[r]) : Message(r, j)'
      BY <1>0, <2>5, <3>1, <3>2 DEF Message, Read
    <3> QED BY <1>0, <2>5, <3>1, <3>3 DEF ChannelRight, Early
  <2> QED BY <2>1, <2>2, <2>3, <2>4, <2>5 DEF Engine, Fail
<1> QED BY <1>0, <1>1, <1>2, <1>4, RightStep
LEMMA StepAnswer == AdmissionInv /\ AdmissionInv' /\ AnswerInv /\ [Next]_vars => AnswerInv'
<1> SUFFICES ASSUME AdmissionInv, AnswerInv, [Next]_vars PROVE AnswerInv'
  OBVIOUS
<1>0. /\ AnswerType /\ AnswerType' /\ ~aborted
      /\ pc \in [Req -> Places] /\ kind \in [Req -> Kinds] /\ id \in [Req -> Nat \cup {Unset}] /\ new \in [Req -> Int]
      /\ \A r \in Req : ChannelRight(r) /\ HeardRight(r)
  BY AnswerTypeStep DEF AnswerInv, AdmissionInv, AdmissionType
<1>1. CASE UNCHANGED <<kind, pc, id, new, channelVars, readerVars>>
  <2>1. \A r \in Req : Same(r)
    BY <1>1 DEF Same, channelVars, readerVars
  <2> QED BY <1>0, <1>1, <2>1, SameRight DEF AnswerInv, readerVars
<1>2. ASSUME NEW r \in Req, Acquire(r) \/ AskTokenizer(r) PROVE AnswerInv'
  <2>1. /\ pc[r] \in Early /\ pc'[r] \in {"checking", "tokenizing"} /\ \A s \in Req \ {r} : pc'[s] = pc[s]
        /\ UNCHANGED <<kind, entryVars, channelVars, readerVars>>
    BY <1>0, <1>2 DEF Acquire, AskTokenizer, Early
  <2>2. \A s \in Req \ {r} : Same(s)
    BY <2>1 DEF Same, entryVars, channelVars, readerVars
  <2>3. ChannelRight(r)'
    BY <1>0, <2>1 DEF ChannelRight, Early, Message, Read, entryVars, channelVars, readerVars
  <2>4. EndsRight(r)'
    BY <1>0, <2>1, HeardSame DEF HeardRight, Early, entryVars, channelVars, readerVars
  <2>5. HeardRight(r)' /\ ~aborted'
    BY <1>0, <2>1, <2>4 DEF HeardRight, Early, readerVars
  <2> QED BY <1>0, <2>2, <2>3, <2>5, RightStep
<1>3. ASSUME NEW r \in Req, TakeId(r) PROVE AnswerInv'
  <2>1. /\ pc[r] = "tokenizing" /\ pc'[r] = "admitting" /\ \A s \in Req \ {r} : pc'[s] = pc[s]
        /\ id' = [id EXCEPT ![r] = rid] /\ new' = [new EXCEPT ![r] = NewTokens(kind[r])]
        /\ UNCHANGED <<kind, channelVars, readerVars>> /\ rid \in Nat
    BY <1>0, <1>3 DEF TakeId, AdmissionInv, AdmissionType
  <2>2. \A s \in Req \ {r} : Same(s)
    BY <1>0, <2>1 DEF Same, channelVars, readerVars
  <2>3. id'[r] # Unset /\ chan[r] = <<>> /\ heard[r] = <<>>
    BY <1>0, <2>1 DEF Unset, ChannelRight, HeardRight, Early
  <2>4. Len(chan'[r]) = 0 /\ Len(heard'[r]) = 0
    BY <2>1, <2>3, EmptySeq DEF channelVars, readerVars
  <2>5. ChannelRight(r)'
    BY <1>0, <2>1, <2>3, <2>4 DEF ChannelRight, Early, channelVars, readerVars
  <2>6. \A kinds : Heard(r, kinds)' = {} /\ Heard(r, kinds) = {}
    BY <2>1, <2>3, <2>4 DEF Heard, readerVars
  <2>7. EndsRight(r)'
    BY <1>0, <2>1, <2>6 DEF HeardRight, EndsRight, readerVars
  <2>8. HeardRight(r)' /\ ~aborted'
    BY <1>0, <2>1, <2>3, <2>7 DEF HeardRight, Early, readerVars
  <2> QED BY <1>0, <2>2, <2>5, <2>8, RightStep
<1>4. ASSUME NEW r \in Req, Overloaded(r) \/ RefuseParameters(r) \/ RefuseInput(r) \/ Incomplete(r)
      PROVE  AnswerInv'
  <2>1. \E k \in Endings \ {"DONE", "answer"} : Tells(r, <<Plain(k)>>)
    BY <1>4 DEF Overloaded, RefuseParameters, RefuseInput, Incomplete, Endings
  <2>2. /\ pc[r] # "done" /\ pc' = [pc EXCEPT ![r] = "done"]
        /\ UNCHANGED <<kind, entryVars, tx, sent, prefilled, got, aborted, chan>>
    BY <1>4 DEF Overloaded, RefuseParameters, RefuseInput, Incomplete, Leave, channelVars
  <2> QED BY <1>0, <2>1, <2>2, EndingStep
<1>5. ASSUME NEW r \in Req, ReadErr(r) PROVE AnswerInv'
  <2>1. /\ pc[r] = "open" /\ pc' = [pc EXCEPT ![r] = "done"] /\ Tells(r, <<Plain("generation")>>)
        /\ chan[r] # <<>> /\ Head(chan[r]).kind = "Err" /\ chan' = [chan EXCEPT ![r] = Tail(@)]
        /\ UNCHANGED <<kind, entryVars, tx, sent, prefilled, got, aborted>>
    BY <1>5 DEF ReadErr, Takes, Leave
  <2>2. Head(chan[r]) = Plain("Err")
    <3>1. Message(r, 1) /\ Head(chan[r]) = chan[r][1]
      BY <1>0, <2>1, HeadMessage
    <3>2. chan[r][1].kind = "Err"
      BY <2>1, <3>1
    <3> QED BY <3>1, <3>2 DEF Message, Plain, Token
  <2>3. "generation" \in Endings \ {"DONE", "answer"}
    BY DEF Endings
  <2> QED BY <1>0, <2>1, <2>2, <2>3, EndingStep
<1>6. ASSUME NEW r \in Req, ReadPrefill(r) PROVE AnswerInv'
  <2>1. /\ pc[r] = "open" /\ pc' = pc /\ chan[r] # <<>> /\ Head(chan[r]).kind = "Prefill"
        /\ chan' = [chan EXCEPT ![r] = Tail(@)] /\ prefilled' = [prefilled EXCEPT ![r] = TRUE]
        /\ UNCHANGED <<kind, entryVars, tx, sent, got, heard, aborted>>
    BY <1>6 DEF ReadPrefill, Takes, handlerVars
  <2>2. Read(r) = 0
    <3>1. Message(r, 1) /\ Head(chan[r]) = chan[r][1]
      BY <1>0, <2>1, HeadMessage
    <3>2. chan[r][1].kind = "Prefill"
      BY <2>1, <3>1
    <3>3. Read(r) + 1 = 1
      BY <3>1, <3>2 DEF Message, Plain, Token
    <3>4. Read(r) \in Nat
      BY <1>0, ChanType
    <3> QED BY <3>3, <3>4
  <2>3. prefilled[r] = FALSE /\ got[r] = 0 /\ prefilled'[r] = TRUE /\ chan'[r] = Tail(chan[r])
    BY <1>0, <2>1, <2>2 DEF Read, AnswerType
  <2>4. Read(r)' = Read(r) + 1
    BY <2>1, <2>3 DEF Read
  <2>5. ChannelRight(r)'
    BY <1>0, <2>1, <2>3, <2>4, ReadOn DEF entryVars
  <2>6. HeardRight(r)'
    BY <1>0, <2>1, HeardSame DEF HeardRight, entryVars
  <2>7. \A s \in Req \ {r} : Same(s)
    BY <1>0, <2>1 DEF Same, AnswerType, entryVars
  <2> QED BY <1>0, <2>1, <2>5, <2>6, <2>7, RightStep
<1>7. ASSUME NEW r \in Req, Disconnect(r) PROVE AnswerInv'
  <2>1. /\ pc[r] \in {"tokenizing", "open"} /\ pc' = [pc EXCEPT ![r] = "gone"] /\ chan' = [chan EXCEPT ![r] = <<>>]
        /\ UNCHANGED <<kind, entryVars, tx, sent, readerVars>>
    BY <1>7 DEF Disconnect, Leave
  <2>2. chan'[r] = <<>> /\ pc'[r] = "gone" /\ \A s \in Req \ {r} : Same(s)
    BY <1>0, <2>1 DEF Same, AnswerType, entryVars, readerVars
  <2>3. ChannelRight(r)'
    BY <1>0, <2>1, <2>2, Emptied DEF readerVars
  <2>4. EndsRight(r)'
    BY <1>0, <2>1, <2>2, HeardSame DEF HeardRight, entryVars, readerVars
  <2>5. HeardRight(r)' /\ ~aborted'
    BY <1>0, <2>1, <2>2, <2>4 DEF HeardRight, Early, readerVars
  <2> QED BY <1>0, <2>2, <2>3, <2>5, RightStep
<1>8. ASSUME NEW r \in Req, AppendEntry(r) \/ ReadToken(r) \/ ReadEnd(r) \/ Engine(r) \/ Fail(r) PROVE AnswerInv'
  BY <1>0, <1>8, AppendEntryStep, ReadTokenStep, ReadEndStep, EngineSends
<1>9. CASE Forward \/ \E w \in 1..Workers : Tokenize(w)
  BY <1>1, <1>9 DEF Forward, Tokenize, handlerVars, entryVars
<1>10. CASE UNCHANGED vars
  BY <1>1, <1>10 DEF vars, handlerVars, entryVars
<1> QED
  BY <1>2, <1>3, <1>4, <1>5, <1>6, <1>7, <1>8, <1>9, <1>10 DEF Next, Handler

(* OneEnding: a client that is told an ending is told one, after every      *)
(* token of its stream in order, DONE and a plain answer only after all the *)
(* tokens asked for, and the reader of the channel never panics             *)
(* (infer.rs:145-252).  That a request let in has something to generate     *)
(* (AdmittedFit) is what keeps the End of an empty answer away.             *)
THEOREM OneEndingPerClient == Spec => []OneEnding
<1>1. Init => AdmissionInv /\ AnswerInv
  BY InitAdmission, InitAnswer
<1>2. AdmissionInv /\ AnswerInv /\ [Next]_vars => (AdmissionInv /\ AnswerInv)'
  BY StepAdmission, StepAnswer
<1>3. AnswerInv => OneEnding
  BY DEF AnswerInv, OneEnding, HeardRight
<1> QED BY <1>1, <1>2, <1>3, PTL DEF Spec
=============================================================================
