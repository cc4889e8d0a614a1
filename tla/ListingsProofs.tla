--------------------------- MODULE ListingsProofs ---------------------------
(***************************************************************************)
(* Targets, tokens and icons, proved for any number of ids, tabs and       *)
(* targets.  Most steps touch either the table or what a browser keeps; a  *)
(* lemma per part says what leaves it alone.                               *)
(***************************************************************************)
EXTENDS Listings, TLAPS

\* Steps of the server that answer a call and do nothing else.
Refuses(t) == CreateRefused(t) \/ CreateTaken(t) \/ EditRefused(t) \/ IconRefused(t)

\* Forms that send a call.
Asks(t) ==
  \/ \E said \in Said : (\E x \in Targets : Submit(t, x, said)) \/ (\E l \in Ids : Save(t, l, said))
  \/ \E l \in Ids : Upload(t, l)

LEMMA NextType ==
  ASSUME TypeOK, [Next]_vars
  PROVE  TypeOK'
<1> USE DEF TypeOK
<1>1. ASSUME NEW t \in Tabs, Asks(t)
      PROVE  TypeOK'
  <2>1. calls' \in [Tabs -> Asked \cup Answered \cup {None}]
    <3>1. ASSUME NEW said \in Said, NEW x \in Targets, Submit(t, x, said)
          PROVE  calls' \in [Tabs -> Asked \cup Answered \cup {None}]
      BY <3>1 DEF Submit, Sends, Asked
    <3>2. ASSUME NEW said \in Said, NEW l \in Ids, Save(t, l, said)
          PROVE  calls' \in [Tabs -> Asked \cup Answered \cup {None}]
      <4>1. (l \in owned[t]) \in BOOLEAN
        OBVIOUS
      <4>2. [op |-> "edit", id |-> l, token |-> l \in owned[t], said |-> said] \in Asked
        BY <4>1 DEF Asked
      <4> QED BY <3>2, <4>2 DEF Save, Sends
    <3>3. ASSUME NEW l \in Ids, Upload(t, l)
          PROVE  calls' \in [Tabs -> Asked \cup Answered \cup {None}]
      <4>1. (l \in owned[t]) \in BOOLEAN
        OBVIOUS
      <4>2. [op |-> "icon", id |-> l, token |-> l \in owned[t]] \in Asked
        BY <4>1 DEF Asked
      <4> QED BY <3>3, <4>2 DEF Upload, Sends
    <3> QED BY <1>1, <3>1, <3>2, <3>3 DEF Asks
  <2>2. UNCHANGED <<table, kept>>
    BY <1>1 DEF Asks, Submit, Save, Upload, Sends
  <2> QED BY <2>1, <2>2 DEF table, kept
<1>2. ASSUME NEW t \in Tabs, Refuses(t)
      PROVE  TypeOK'
  BY <1>2 DEF Refuses, CreateRefused, CreateTaken, EditRefused, IconRefused, Answers, Answered,
     table, kept
<1>3. ASSUME NEW t \in Tabs, Claim(t) \/ \E l \in Ids : Forget(t, l)
      PROVE  TypeOK'
  <2>1. ASSUME NEW s \in Readings, NEW list \in SUBSET Ids, NEW new \in Ids \cup {None},
               WillWrite(t, s, list, new)
        PROVE  writes' \in [Tabs -> Write \cup {None}]
    <3>1. (s # stored) \in BOOLEAN
      OBVIOUS
    <3>2. [list |-> list, new |-> new, came |-> {}, blind |-> s # stored] \in Write
      BY <3>1 DEF Write
    <3> QED BY <2>1, <3>2 DEF WillWrite
  <2>2. \A s \in Readings : s \subseteq Ids
    BY DEF Readings
  <2>3. CASE Claim(t)
    <3>1. calls[t].id \in Ids
      BY <2>3 DEF Claim, Untold, Awaits, Asked, Answered
    <3>2. PICK s \in Readings : WillWrite(t, s, Remembered(s, calls[t].id), calls[t].id)
      BY <2>3 DEF Claim
    <3>3. Remembered(s, calls[t].id) \in SUBSET Ids
      BY <2>2, <3>1 DEF Remembered
    <3>4. writes' \in [Tabs -> Write \cup {None}]
      BY <2>1, <3>1, <3>2, <3>3
    <3> QED BY <2>3, <3>4 DEF Claim, table
  <2>4. ASSUME NEW l \in Ids, Forget(t, l)
        PROVE  TypeOK'
    <3>1. PICK s \in Readings : WillWrite(t, s, s \ {l}, None)
      BY <2>4 DEF Forget
    <3>2. s \ {l} \in SUBSET Ids
      BY <2>2
    <3>3. writes' \in [Tabs -> Write \cup {None}]
      BY <2>1, <3>1, <3>2
    <3> QED BY <2>4, <3>3 DEF Forget, table
  <2> QED BY <1>3, <2>3, <2>4
<1>4. ASSUME NEW t \in Tabs, Told(t) \/ Lose(t) \/ Reload(t)
      PROVE  TypeOK'
  <2>1. Untold(t) \subseteq Ids
    BY DEF Untold, Awaits, Asked, Answered
  <2>2. calls' \in [Tabs -> Asked \cup Answered \cup {None}]
    BY <1>4 DEF Told, Lose, Reload, Answers, Answered
  <2>3. owned' \in [Tabs -> SUBSET Ids] /\ writes' \in [Tabs -> Write \cup {None}]
    BY <1>4 DEF Told, Lose, Reload, Readings, kept
  <2> QED BY <1>4, <2>1, <2>2, <2>3 DEF Told, Lose, Reload, table, kept
<1>5. ASSUME NEW t \in Tabs, Stores(t)
      PROVE  TypeOK'
  <2>1. writes[t] \in Write /\ writes[t] # None
    BY <1>5 DEF Stores, Idle
  <2>2. stored' \subseteq Ids /\ lost' \subseteq Ids
    <3>1. Unseen(t) \subseteq Ids /\ writes[t].new \in Ids \cup {None}
      BY <2>1 DEF Unseen, Write
    <3>2. stored' \subseteq Ids
      BY <1>5, <2>1 DEF Stores, Write
    <3>3. lost' = lost \cup ((Unseen(t) \cup ({writes[t].new} \ {None})) \ stored')
      BY <1>5 DEF Stores
    <3> QED BY <3>1, <3>2, <3>3
  <2>3. writes' \in [Tabs -> Write \cup {None}]
    <3>1. \A u \in Tabs : ~Idle(u) => [writes[u] EXCEPT !.came = @ \cup (stored' \ stored)] \in Write
      BY <2>2 DEF Idle, Write
    <3>2. writes' = Stale(t, stored')
      BY <1>5 DEF Stores
    <3> QED BY <3>1, <3>2 DEF Stale
  <2>4. calls' \in [Tabs -> Asked \cup Answered \cup {None}] /\ owned' \in [Tabs -> SUBSET Ids]
    BY <1>5, <2>2 DEF Stores
  <2> QED BY <1>5, <2>2, <2>3, <2>4 DEF Stores, table
<1>6. ASSUME NEW t \in Tabs, CreateListing(t)
      PROVE  TypeOK'
  <2>1. calls' \in [Tabs -> Asked \cup Answered \cup {None}]
    BY <1>6 DEF CreateListing, Answers, Answered
  <2>2. NewRow(calls[t]) \in Row
    BY <1>6, ListingsAssumption DEF CreateListing, Awaits, Asked, Answered, NewRow, Row, Passes
  <2>3. rows' \in [Ids -> Row \cup {None}]
    BY <1>6, <2>2 DEF CreateListing, table
  <2>4. avatars' \subseteq Ids /\ lost' \subseteq Ids /\ UNCHANGED <<stored, owned, writes>>
    BY <1>6 DEF CreateListing, table
  <2> QED BY <2>1, <2>3, <2>4
<1>7. ASSUME NEW t \in Tabs, Edit(t)
      PROVE  TypeOK'
  <2>1. calls' \in [Tabs -> Asked \cup Answered \cup {None}]
    BY <1>7 DEF Edit, Answers, Answered
  <2>2. calls[t].id \in Ids
    BY <1>7 DEF Edit, Awaits, Asked, Answered
  <2>3. rows' \in [Ids -> Row \cup {None}]
    BY <1>7, <2>2 DEF Edit, Owns, Row
  <2> QED BY <1>7, <2>1, <2>3 DEF Edit, kept
<1>8. ASSUME NEW t \in Tabs, Encode(t)
      PROVE  TypeOK'
  BY <1>8 DEF Encode, Awaits, Asked, Answered, table, kept
<1>9. ASSUME NEW t \in Tabs, SetIcon(t)
      PROVE  TypeOK'
  <2>1. calls' \in [Tabs -> Asked \cup Answered \cup {None}]
    BY <1>9 DEF SetIcon, Answers, Answered
  <2>2. rows' \in [Ids -> Row \cup {None}]
    BY <1>9 DEF SetIcon, WithIcon, Row
  <2> QED BY <1>9, <2>1, <2>2 DEF SetIcon, kept
<1>10. ASSUME NEW l \in Ids, Avatar(l) \/ Earn(l) \/ Takedown(l)
       PROVE  TypeOK'
  <2>1. rows' \in [Ids -> Row \cup {None}]
    BY <1>10 DEF Avatar, Earn, Takedown, WithIcon, Row
  <2> QED BY <1>10, <2>1 DEF Avatar, Earn, Takedown, kept
<1>11. CASE UNCHANGED vars
  BY <1>11 DEF vars, table, kept
<1> QED
  BY <1>1, <1>2, <1>3, <1>4, <1>5, <1>6, <1>7, <1>8, <1>9, <1>10, <1>11
  DEF Next, Browser, Answer, Asks, Refuses

-----------------------------------------------------------------------------
(* The table.                                                              *)

\* What happens to a row that is there, in any step: it keeps its target, and
\* gets an icon of its owner's from SetIcon alone.  New ones come of a creation.
Kept(l) ==
  /\ rows[l] # None
  /\ rows'[l].target = rows[l].target
  /\ rows[l].earned => rows'[l].earned
  /\ rows'[l].icon = "upload" /\ rows[l].icon # "upload" =>
       \E t \in Tabs : SetIcon(t) /\ calls[t].id = l

Made(l) == \E t \in Tabs :
  /\ CreateListing(t) /\ ~Taken(calls[t].target)
  /\ l \in Ids \ Drawn
  /\ rows' = [rows EXCEPT ![l] = NewRow(calls[t])]
  /\ l \in lost' \cup Untold(t)'

LEMMA StepOfARow ==
  ASSUME TypeOK, [Next]_vars, NEW l \in Ids, rows'[l] # None
  PROVE  Kept(l) \/ Made(l)
<1> USE DEF TypeOK
<1>0. rows[l] # None => rows[l] \in Row
  OBVIOUS
<1>1. CASE UNCHANGED rows
  BY <1>1 DEF Kept
<1>2. ASSUME NEW t \in Tabs, CreateListing(t), rows' # rows
      PROVE  Kept(l) \/ Made(l)
  <2>1. PICK n \in Ids \ Drawn : /\ rows' = [rows EXCEPT ![n] = NewRow(calls[t])]
                                 /\ \/ n \in lost'
                                    \/ calls' = [calls EXCEPT ![t] = [op |-> "answer", id |-> n]]
    BY <1>2 DEF CreateListing, table
  <2>4. n \in lost' \cup Untold(t)'
    BY <2>1, NoCall, ListingsAssumption DEF Untold, Awaits, Answered
  <2>2. CASE n = l
    BY <1>2, <2>1, <2>2, <2>4 DEF Made, CreateListing
  <2>3. CASE n # l
    BY <2>1, <2>3 DEF Kept
  <2> QED BY <2>2, <2>3
<1>3. ASSUME NEW t \in Tabs, Edit(t)
      PROVE  Kept(l)
  BY <1>0, <1>3 DEF Edit, Owns, Kept, Row, Awaits, Asked, Answered
<1>4. ASSUME NEW t \in Tabs, SetIcon(t)
      PROVE  Kept(l)
  <2>1. CASE UNCHANGED rows
    BY <2>1 DEF Kept
  <2>2. CASE rows' = WithIcon(calls[t].id, "upload")
    BY <1>0, <1>4, <2>2 DEF WithIcon, Kept, Row
  <2> QED BY <1>4, <2>1, <2>2 DEF SetIcon
<1>5. ASSUME NEW k \in Ids, Avatar(k) \/ Earn(k) \/ Takedown(k)
      PROVE  Kept(l)
  BY <1>0, <1>5 DEF Avatar, Earn, Takedown, WithIcon, Kept, Row
<1>6. ASSUME NEW t \in Tabs, Browser(t)
      PROVE  UNCHANGED rows
  BY <1>6 DEF Browser, Submit, Save, Upload, Sends, Forget, Claim, Stores, Told, Lose, Reload, table
<1>7. ASSUME NEW t \in Tabs, Refuses(t) \/ Encode(t)
      PROVE  UNCHANGED rows
  BY <1>7 DEF Refuses, CreateRefused, CreateTaken, EditRefused, IconRefused, Encode, table
<1> QED
  BY <1>1, <1>2, <1>3, <1>4, <1>5, <1>6, <1>7 DEF Next, Answer, Refuses, vars, table

\* Two creations of one target meet at Taken, which looks at the table as it is.
LEMMA NextTargets ==
  ASSUME TypeOK, OneListingEach, [Next]_vars
  PROVE  OneListingEach'
<1>1. TypeOK'
  BY NextType
<1>2. ASSUME NEW l \in Listed', NEW k \in Listed', rows'[l].target = rows'[k].target
      PROVE  l = k
  <2>1. l \in Ids /\ k \in Ids /\ rows'[l] # None /\ rows'[k] # None
    BY DEF Listed
  <2>2. CASE Kept(l) /\ Kept(k)
    BY <1>2, <2>1, <2>2 DEF Kept, OneListingEach, Listed
  <2>3. ASSUME NEW n \in Ids, NEW m \in Ids, Made(n), rows'[m] # None, m # n
        PROVE  rows'[m].target # rows'[n].target
    <3>1. PICK t \in Tabs : /\ ~Taken(calls[t].target)
                            /\ rows' = [rows EXCEPT ![n] = NewRow(calls[t])]
      BY <2>3 DEF Made
    <3>2. rows'[m] = rows[m] /\ rows'[n].target = calls[t].target
      BY <2>3, <3>1 DEF TypeOK, NewRow
    <3>3. m \in Listed
      BY <2>3, <3>2 DEF Listed
    <3> QED BY <3>1, <3>2, <3>3 DEF Taken
  <2>4. (Kept(l) \/ Made(l)) /\ (Kept(k) \/ Made(k))
    BY <2>1, StepOfARow
  <2> QED BY <1>2, <2>1, <2>2, <2>3, <2>4
<1> QED BY <1>1, <1>2 DEF OneListingEach

LEMMA InitTargets == Init => OneListingEach
BY DEF Init, OneListingEach, TypeOK, Listed

\* However creations, edits and takedowns interleave, two listings never have
\* one target: for any number of listings, tabs and targets.
THEOREM TargetsAreUnique == Spec => []OneListingEach
<1>1. OneListingEach /\ [Next]_vars => OneListingEach'
  BY NextTargets DEF OneListingEach
<1> QED BY <1>1, InitTargets, PTL DEF Spec

-----------------------------------------------------------------------------
(* Tokens and icons.                                                       *)

\* Tokens that are stored, or went for a cause that is named.
Safe == stored \cup lost

HasToken(call) == call # None /\ call.op \in {"icon", "encoding"} /\ call.token

Earned(l) == rows[l] # None => rows[l].earned \/ ~HasMinimum

\* A list that is about to be written has what is stored, but for what it could not see
\* and what was let go; and the listing it is for is still waiting to be told.
ListIsRight(t) ==
  ~Idle(t) => /\ stored \subseteq writes[t].list \cup Unseen(t) \cup lost
              /\ writes[t].new # None => Untold(t) = {writes[t].new}

\* What was looked at before the encoder was awaited still holds; a token once
\* held is safe, so that no new listing is drawn under its id.
TokenIInv ==
  /\ OneListingEach /\ TokenHasAHome
  /\ \A t \in Tabs : ListIsRight(t)
  /\ \A t \in Tabs : owned[t] \subseteq Safe
  /\ \A t \in Tabs : HasToken(calls[t]) => calls[t].id \in Safe
  /\ \A t \in Tabs : Awaits(t, "encoding") => calls[t].token /\ Earned(calls[t].id)

LEMMA InitTokens == Init => TokenIInv
BY InitTargets DEF Init, TokenIInv, TokenHasAHome, Listed, HasToken, Awaits, ListIsRight, Idle

\* A tab's call in any step: it waits on, a form sends one, the server answers
\* or begins to encode, or its answer is taken in.
LEMMA StepOfACall ==
  ASSUME TypeOK, [Next]_vars, NEW t \in Tabs
  PROVE  \/ calls'[t] = calls[t]
         \/ Asks(t) \/ Answer(t)
         \/ Stores(t) \/ Told(t) \/ Lose(t) \/ Reload(t)
<1>1. ASSUME NEW k \in Tabs, k # t,
             \/ Asks(k) \/ Answer(k)
             \/ Stores(k) \/ Told(k) \/ Lose(k) \/ Reload(k)
      PROVE  calls'[t] = calls[t]
  BY <1>1 DEF TypeOK, Asks, Submit, Save, Upload, Sends, Answer, CreateRefused, CreateTaken,
     CreateListing, EditRefused, Edit, IconRefused, Encode, SetIcon, Answers,
     Stores, Told, Lose, Reload
<1>2. ASSUME NEW k \in Tabs, Claim(k) \/ \E l \in Ids : Forget(k, l)
      PROVE  calls'[t] = calls[t]
  BY <1>2 DEF Claim, Forget
<1>3. ASSUME NEW l \in Ids, Avatar(l) \/ Earn(l) \/ Takedown(l)
      PROVE  calls'[t] = calls[t]
  BY <1>3 DEF Avatar, Earn, Takedown
<1>4. CASE UNCHANGED vars
  BY <1>4 DEF vars
<1> QED BY <1>1, <1>2, <1>3, <1>4 DEF Next, Browser, Asks

\* What a step of a tab leaves alone.
LEMMA KeptByMost ==
  ASSUME \/ \E t \in Tabs : Asks(t) \/ Told(t) \/ (Answer(t) /\ ~CreateListing(t))
         \/ \E l \in Ids : Avatar(l) \/ Earn(l) \/ Takedown(l)
  PROVE  UNCHANGED <<stored, owned, writes, lost>>
<1>1. ASSUME NEW t \in Tabs, Asks(t) \/ Told(t) \/ (Answer(t) /\ ~CreateListing(t))
      PROVE  UNCHANGED <<stored, owned, writes, lost>>
  BY <1>1 DEF Asks, Submit, Save, Upload, Sends, Told, Answer, CreateRefused, CreateTaken,
     EditRefused, Edit, IconRefused, Encode, SetIcon, kept
<1>2. ASSUME NEW l \in Ids, Avatar(l) \/ Earn(l) \/ Takedown(l)
      PROVE  UNCHANGED <<stored, owned, writes, lost>>
  BY <1>2 DEF Avatar, Earn, Takedown, kept
<1> QED BY <1>1, <1>2

\* Whatever leaves storage leaves it for a cause that is named.
LEMMA SafeGrows ==
  ASSUME TypeOK, \A t \in Tabs : ListIsRight(t), [Next]_vars
  PROVE  Safe \subseteq Safe'
<1>1. ASSUME NEW t \in Tabs, Stores(t)
      PROVE  Safe \subseteq Safe'
  <2>1. stored \subseteq writes[t].list \cup Unseen(t) \cup lost
    BY <1>1 DEF ListIsRight, Stores
  <2>2. /\ stored' = writes[t].list \/ stored' = stored
        /\ lost \subseteq lost' /\ Unseen(t) \subseteq stored' \cup lost'
    BY <1>1 DEF Stores
  <2> QED BY <2>1, <2>2 DEF Safe
<1>2. ASSUME NEW t \in Tabs,
             Claim(t) \/ CreateListing(t) \/ Lose(t) \/ Reload(t) \/ \E l \in Ids : Forget(t, l)
      PROVE  Safe \subseteq Safe'
  BY <1>2 DEF Claim, CreateListing, Lose, Reload, Forget, Safe
<1>3. UNCHANGED <<stored, owned, writes, lost>> => Safe \subseteq Safe'
  BY DEF Safe
<1>4. UNCHANGED vars => UNCHANGED <<stored, owned, writes, lost>>
  BY DEF vars, kept
<1> QED BY <1>1, <1>2, <1>3, <1>4, KeptByMost DEF Next, Browser, Asks

LEMMA UntoldIsKept ==
  ASSUME TypeOK, \A t \in Tabs : ListIsRight(t), [Next]_vars, NEW t \in Tabs
  PROVE  Untold(t) \subseteq Untold(t)' \cup Safe'
<1>1. CASE calls'[t] = calls[t]
  BY <1>1 DEF Untold, Awaits
<1>2. CASE Asks(t) \/ Answer(t)
  <2>1. ~Awaits(t, "answer")
    BY <1>2 DEF Asks, Submit, Save, Upload, Sends, Answer, CreateRefused, CreateTaken,
       CreateListing, EditRefused, Edit, IconRefused, Encode, SetIcon, Awaits
  <2> QED BY <2>1 DEF Untold
<1>3. CASE Stores(t)
  <2>1. CASE writes[t].new = None
    <3>1. calls' = calls
      BY <1>3, <2>1 DEF Stores
    <3> QED BY <1>1, <3>1
  <2>2. CASE writes[t].new # None
    <3>1. Untold(t) = {writes[t].new}
      BY <1>3, <2>2 DEF Stores, ListIsRight
    <3>2. writes[t].new \in stored' \cup lost'
      BY <1>3, <2>2 DEF Stores
    <3> QED BY <3>1, <3>2 DEF Safe
  <2> QED BY <2>1, <2>2
<1>4. CASE Told(t) \/ Lose(t) \/ Reload(t)
  BY <1>4 DEF Told, Lose, Reload, Safe
<1> QED BY <1>1, <1>2, <1>3, <1>4, StepOfACall

\* What a tab is about to write stays right while the others write theirs.
LEMMA ListsStayRight ==
  ASSUME TypeOK, \A t \in Tabs : ListIsRight(t), [Next]_vars, NEW t \in Tabs
  PROVE  ListIsRight(t)'
<1> USE DEF TypeOK
<1>1. CASE Claim(t)
  <2>1. PICK s \in Readings : WillWrite(t, s, Remembered(s, calls[t].id), calls[t].id)
    BY <1>1 DEF Claim
  <2>2. /\ writes'[t] = [list |-> Remembered(s, calls[t].id), new |-> calls[t].id,
                         came |-> {}, blind |-> s # stored]
        /\ stored' = stored /\ lost' = lost /\ calls' = calls
    BY <1>1, <2>1 DEF Claim, WillWrite
  <2>3. Untold(t)' = {calls[t].id}
    BY <1>1, <2>2 DEF Claim, Untold, Awaits
  <2>4. stored \subseteq Remembered(s, calls[t].id) \/ s # stored
    BY DEF Remembered
  <2>5. /\ writes'[t].list = Remembered(s, calls[t].id) /\ writes'[t].new = calls[t].id
        /\ writes'[t].came = {} /\ writes'[t].blind = (s # stored)
    BY <2>2
  <2>6. stored' \subseteq writes'[t].list \cup Unseen(t)' \cup lost'
    BY <2>2, <2>4, <2>5 DEF Unseen
  <2> QED BY <2>3, <2>5, <2>6 DEF ListIsRight
<1>2. ASSUME NEW l \in Ids, Forget(t, l)
      PROVE  ListIsRight(t)'
  <2>1. PICK s \in Readings : WillWrite(t, s, s \ {l}, None)
    BY <1>2 DEF Forget
  <2>2. /\ writes'[t] = [list |-> s \ {l}, new |-> None, came |-> {}, blind |-> s # stored]
        /\ stored' = stored /\ lost' = lost \cup {l}
    BY <1>2, <2>1 DEF Forget, WillWrite
  <2>3. /\ writes'[t].list = s \ {l} /\ writes'[t].new = None
        /\ writes'[t].came = {} /\ writes'[t].blind = (s # stored)
    BY <2>2
  <2>4. stored' \subseteq writes'[t].list \cup Unseen(t)' \cup lost'
    BY <2>2, <2>3 DEF Unseen
  <2> QED BY <2>3, <2>4 DEF ListIsRight
<1>3. ASSUME NEW u \in Tabs, u # t, Stores(u)
      PROVE  ListIsRight(t)'
  <2>1. CASE Idle(t)
    <3>1. writes'[t] = None
      BY <1>3, <2>1 DEF Stores, Stale
    <3> QED BY <3>1 DEF ListIsRight, Idle
  <2>2. CASE ~Idle(t)
    <3> DEFINE w == writes[t]
    <3>1. /\ w \in Write /\ writes'[t] = [w EXCEPT !.came = @ \cup (stored' \ stored)]
          /\ lost \subseteq lost'
      BY <1>3, <2>2 DEF Stores, Stale, Idle
    <3>2. /\ writes'[t].list = w.list /\ writes'[t].new = w.new /\ writes'[t].blind = w.blind
          /\ writes'[t].came = w.came \cup (stored' \ stored)
      BY <3>1 DEF Write
    <3>3. calls'[t] = calls[t]
      BY <1>3 DEF Stores
    <3>4. Untold(t)' = Untold(t)
      BY <3>3 DEF Untold, Awaits
    <3>5. /\ stored \subseteq w.list \cup Unseen(t) \cup lost
          /\ w.new # None => Untold(t) = {w.new}
      BY <2>2 DEF ListIsRight
    <3>6. stored' \subseteq writes'[t].list \cup Unseen(t)' \cup lost'
      <4>1. CASE w.blind
        <5>1. Unseen(t)' = stored'
          BY <3>2, <4>1 DEF Unseen
        <5> QED BY <5>1
      <4>2. CASE ~w.blind
        <5>1. Unseen(t)' = w.came \cup (stored' \ stored) /\ Unseen(t) = w.came
          BY <3>2, <4>2 DEF Unseen
        <5> QED BY <3>1, <3>2, <3>5, <5>1
      <4> QED BY <4>1, <4>2
    <3> HIDE DEF w
    <3> QED BY <3>2, <3>4, <3>5, <3>6 DEF ListIsRight
  <2> QED BY <2>1, <2>2
<1>4. CASE Stores(t) \/ Reload(t)
  <2>1. writes'[t] = None
    BY <1>4 DEF Stores, Stale, Reload
  <2> QED BY <2>1 DEF ListIsRight, Idle
<1>5. ASSUME writes'[t] = writes[t], stored' = stored, lost \subseteq lost',
             Untold(t)' = Untold(t) \/ Idle(t) \/ (Untold(t) = {} /\ calls[t] # None)
      PROVE  ListIsRight(t)'
  BY <1>5 DEF ListIsRight, Idle, Unseen
<1>6. CASE Asks(t) \/ Told(t) \/ Lose(t)
  <2>1. Idle(t)
    BY <1>6 DEF Asks, Submit, Save, Upload, Sends, Told, Lose
  <2>2. writes' = writes
    BY <1>6, KeptByMost DEF Lose
  <2> QED BY <2>1, <2>2 DEF ListIsRight, Idle
<1>7. CASE Answer(t)
  <2>1. Untold(t) = {} /\ calls[t] # None
    BY <1>7 DEF Answer, CreateRefused, CreateTaken, CreateListing, EditRefused, Edit,
       IconRefused, Encode, SetIcon, Awaits, Untold
  <2>2. writes' = writes /\ stored' = stored /\ lost \subseteq lost'
    BY <1>7, KeptByMost DEF CreateListing
  <2> QED BY <1>5, <2>1, <2>2
<1>8. ASSUME NEW u \in Tabs, u # t,
             \/ Asks(u) \/ Answer(u) \/ Told(u) \/ Lose(u) \/ Reload(u) \/ Claim(u)
             \/ \E l \in Ids : Forget(u, l)
      PROVE  ListIsRight(t)'
  <2>1. calls'[t] = calls[t]
    BY <1>8 DEF Asks, Submit, Save, Upload, Sends, Answer, CreateRefused, CreateTaken,
       CreateListing, EditRefused, Edit, IconRefused, Encode, SetIcon, Answers,
       Told, Lose, Reload, Claim, Forget
  <2>2. stored' = stored /\ lost \subseteq lost' /\ writes'[t] = writes[t]
    BY <1>8, KeptByMost DEF CreateListing, Lose, Reload, Claim, Forget, WillWrite
  <2>3. Untold(t)' = Untold(t)
    BY <2>1 DEF Untold, Awaits
  <2> QED BY <1>5, <2>2, <2>3
<1>9. ASSUME NEW l \in Ids, Avatar(l) \/ Earn(l) \/ Takedown(l)
      PROVE  ListIsRight(t)'
  <2>1. calls' = calls /\ stored' = stored /\ lost' = lost /\ writes' = writes
    BY <1>9, KeptByMost DEF Avatar, Earn, Takedown
  <2>2. Untold(t)' = Untold(t)
    BY <2>1 DEF Untold, Awaits
  <2> QED BY <1>5, <2>1, <2>2
<1>10. CASE UNCHANGED vars
  BY <1>10 DEF vars, kept, ListIsRight, Idle, Unseen, Untold, Awaits
<1> QED
  BY <1>1, <1>2, <1>3, <1>4, <1>6, <1>7, <1>8, <1>9, <1>10 DEF Next, Browser, Asks

LEMMA NextTokens ==
  ASSUME TokenIInv, [Next]_vars
  PROVE  TokenIInv'
<1>0. TypeOK /\ TypeOK' /\ OneListingEach' /\ \A t \in Tabs : ListIsRight(t) /\ ListIsRight(t)'
  <2>1. TypeOK /\ OneListingEach /\ \A t \in Tabs : ListIsRight(t)
    BY DEF TokenIInv, OneListingEach
  <2> QED BY <2>1, NextTargets, NextType, ListsStayRight
<1>1. TokenHasAHome'
  <2> SUFFICES ASSUME NEW l \in Ids, rows'[l] # None
               PROVE  l \in Safe' \/ \E t \in Tabs : l \in Untold(t)'
    BY DEF TokenHasAHome, Listed, Safe
  <2>1. CASE Made(l)
    BY <2>1 DEF Made, Safe
  <2>2. CASE Kept(l)
    <3>1. l \in Safe \/ \E t \in Tabs : l \in Untold(t)
      BY <2>2 DEF Kept, TokenIInv, TokenHasAHome, Listed, Safe
    <3> QED BY <1>0, <3>1, SafeGrows, UntoldIsKept
  <2> QED BY <1>0, <2>1, <2>2, StepOfARow
<1>2. ASSUME NEW t \in Tabs
      PROVE  owned'[t] \subseteq Safe'
  <2>1. ASSUME NEW k \in Tabs, Stores(k) \/ Reload(k)
        PROVE  owned'[t] \subseteq stored' \/ owned'[t] = owned[t]
    <3>1. CASE Stores(k)
      <4>1. PICK s \in {stored', {}} : owned' = [owned EXCEPT ![k] = s]
        BY <3>1 DEF Stores
      <4> QED BY <1>0, <4>1 DEF TypeOK
    <3>2. CASE Reload(k)
      <4>1. PICK s \in Readings : owned' = [owned EXCEPT ![k] = s]
        BY <3>2 DEF Reload
      <4>2. s \subseteq stored'
        BY <3>2 DEF Reload, Readings
      <4> QED BY <1>0, <4>1, <4>2 DEF TypeOK
    <3> QED BY <2>1, <3>1, <3>2
  <2>2. ASSUME NEW k \in Tabs, Claim(k) \/ CreateListing(k) \/ Lose(k) \/ \E l \in Ids : Forget(k, l)
        PROVE  owned'[t] = owned[t]
    BY <2>2 DEF Claim, CreateListing, Lose, Forget
  <2>3. UNCHANGED vars => owned'[t] = owned[t]
    BY DEF vars, kept
  <2>7. owned'[t] \subseteq stored' \/ owned'[t] = owned[t]
    BY <2>1, <2>2, <2>3, KeptByMost DEF Next, Browser, Asks
  <2>8. owned[t] \subseteq Safe
    BY DEF TokenIInv
  <2> QED BY <1>0, <2>7, <2>8, SafeGrows DEF Safe
<1>3. ASSUME NEW t \in Tabs, HasToken(calls[t])'
      PROVE  calls'[t].id \in Safe'
  <2>1. CASE calls'[t] = calls[t]
    BY <1>0, <1>3, <2>1, SafeGrows DEF TokenIInv, HasToken
  <2>2. CASE Asks(t)
    <3>1. PICK l \in Ids : Upload(t, l)
      BY <1>0, <1>3, <2>2 DEF Asks, Submit, Save, Sends, HasToken, TypeOK
    <3>2. calls'[t].id = l /\ l \in owned[t]
      BY <1>0, <1>3, <3>1 DEF Upload, Sends, HasToken, TypeOK
    <3> QED BY <1>0, <3>2, SafeGrows DEF TokenIInv
  <2>3. CASE Encode(t)
    <3>1. calls'[t].id = calls[t].id /\ HasToken(calls[t])
      BY <1>0, <1>3, <2>3 DEF Encode, IconAllowed, Owns, Awaits, HasToken, TypeOK, Asked, Answered
    <3> QED BY <1>0, <3>1, SafeGrows DEF TokenIInv
  <2>4. ASSUME Answer(t), ~Encode(t)
        PROVE  FALSE
    BY <1>0, <1>3, <2>4 DEF Answer, CreateRefused, CreateTaken, CreateListing, EditRefused,
       Edit, IconRefused, SetIcon, Answers, HasToken, TypeOK
  <2>5. ASSUME Stores(t) \/ Told(t) \/ Lose(t) \/ Reload(t)
        PROVE  calls'[t] = calls[t]
    BY <1>0, <1>3, <2>5 DEF Stores, Told, Lose, Reload, Answers, HasToken, TypeOK
  <2> QED BY <1>0, <2>1, <2>2, <2>3, <2>4, <2>5, StepOfACall
<1>4. ASSUME NEW t \in Tabs, Awaits(t, "encoding")'
      PROVE  calls'[t].token /\ Earned(calls[t].id)'
  <2>1. /\ calls'[t].id = calls[t].id /\ HasToken(calls[t])
        /\ Earned(calls[t].id) /\ calls'[t].token
    <3>1. CASE calls'[t] = calls[t]
      BY <1>0, <1>4, <3>1 DEF TokenIInv, HasToken, Awaits
    <3>2. CASE Encode(t)
      BY <1>0, <1>4, <3>2 DEF Encode, IconAllowed, Owns, Awaits, HasToken, TypeOK, Asked,
         Answered, Earned
    <3>3. ASSUME Answer(t), ~Encode(t)
          PROVE  FALSE
      BY <1>0, <1>4, <3>3 DEF Answer, CreateRefused, CreateTaken, CreateListing, EditRefused,
         Edit, IconRefused, SetIcon, Answers, Awaits, TypeOK
    <3>4. ASSUME Asks(t)
          PROVE  FALSE
      BY <1>0, <1>4, <3>4 DEF Asks, Submit, Save, Upload, Sends, Awaits, TypeOK
    <3>5. ASSUME Stores(t) \/ Told(t) \/ Lose(t) \/ Reload(t)
          PROVE  calls'[t] = calls[t]
      BY <1>0, <1>4, <3>5 DEF Stores, Told, Lose, Reload, Answers, Awaits, TypeOK
    <3> QED BY <1>0, <3>1, <3>2, <3>3, <3>4, <3>5, StepOfACall
  <2>2. calls[t].id \in Ids /\ calls[t].id \in Safe
    BY <1>0, <2>1 DEF TokenIInv, HasToken, TypeOK, Asked, Answered
  <2>3. ~Made(calls[t].id)
    BY <2>2 DEF Made, Safe, Drawn
  <2>4. rows'[calls[t].id] # None => Kept(calls[t].id)
    BY <1>0, <2>2, <2>3, StepOfARow
  <2>5. rows'[calls[t].id] # None => rows'[calls[t].id].earned \/ ~HasMinimum
    BY <2>1, <2>4 DEF Kept, Earned
  <2> QED BY <2>1, <2>5 DEF Earned
<1> QED BY <1>0, <1>1, <1>2, <1>3, <1>4 DEF TokenIInv

LEMMA TokensHold == Spec => []TokenIInv
<1>1. TokenIInv /\ [Next]_vars => TokenIInv'
  BY NextTokens
<1> QED BY <1>1, InitTokens, PTL DEF Spec

\* No listing loses its token but for a cause that is named: two tabs that write
\* their lists back at once may cost one, and so may a storage that throws; tabs
\* that do not meet there never do, nor does another listing or a takedown.
THEOREM NoTokenIsLostUnseen == Spec => []TokenHasAHome
<1>1. TokenIInv => TokenHasAHome
  BY DEF TokenIInv
<1> QED BY <1>1, TokensHold, PTL

\* Token and points are looked at before the encoder is awaited, and hold when
\* the icon is written.
THEOREM IconsAreOwnAndEarned == Spec => IconIsOwnAndEarned
<1>1. TokenIInv /\ [Next]_vars =>
        [\A l \in Listed :
           rows'[l] # None /\ rows'[l].icon = "upload" /\ rows[l].icon # "upload" =>
             /\ rows[l].earned \/ ~HasMinimum
             /\ \E t \in Tabs : Awaits(t, "encoding") /\ calls[t].id = l /\ calls[t].token]_vars
  <2> SUFFICES ASSUME TokenIInv, [Next]_vars, NEW l \in Listed,
                      rows'[l] # None, rows'[l].icon = "upload", rows[l].icon # "upload"
               PROVE  /\ rows[l].earned \/ ~HasMinimum
                      /\ \E t \in Tabs : Awaits(t, "encoding") /\ calls[t].id = l /\ calls[t].token
    OBVIOUS
  <2>1. TypeOK /\ l \in Ids /\ rows[l] # None
    BY DEF TokenIInv, OneListingEach, Listed
  <2>2. Kept(l)
    BY <2>1, StepOfARow DEF Made, Drawn
  <2>3. PICK t \in Tabs : SetIcon(t) /\ calls[t].id = l
    BY <2>2 DEF Kept
  <2>4. Awaits(t, "encoding")
    BY <2>3 DEF SetIcon
  <2>5. calls[t].token /\ Earned(calls[t].id)
    BY <2>4 DEF TokenIInv
  <2> QED BY <2>1, <2>3, <2>4, <2>5 DEF Earned
<1> QED BY <1>1, TokensHold, PTL DEF Spec, IconIsOwnAndEarned
=============================================================================
