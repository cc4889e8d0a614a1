------------------------------ MODULE Listings -------------------------------
(***************************************************************************)
(* Listings and who may change them: createListing, updateListing, setIcon *)
(* and their routes (packages/server listings.ts, routes.ts, avatar.ts),   *)
(* with the forms of one browser that call them (SubmitForm.tsx,           *)
(* OwnedPanel.tsx, App.tsx, api.ts) and its localStorage (storage.ts).     *)
(*                                                                         *)
(* The edit token of a listing is told once, to the tab that created it,   *)
(* and stands here under the listing's id.  A tab awaits one call at a     *)
(* time.  SQLite may throw at any statement, the network may lose a call   *)
(* before or after the server has seen it; localStorage may throw at any   *)
(* access, and two tabs that change its list do not wait for each other.   *)
(***************************************************************************)
EXTENDS Integers, FiniteSets

CONSTANTS
  Ids, Tabs, None,
  Targets, Handles,   \* normalised targets; those that are handles
  Names, Blocked,     \* what a field may say; what blockedWord refuses
  Said,               \* what a call says of the name and of the tagline
  HasProxy,           \* config.avatar.proxyOrigin is set
  HasMinimum          \* config.board.iconMinPoints > 0

ASSUME ListingsAssumption ==
  /\ Handles \subseteq Targets /\ Blocked \subseteq Names
  /\ Said \subseteq [name : Names, tagline : Names]
  /\ None \notin Ids \cup Targets \cup Names
  /\ HasProxy \in BOOLEAN /\ HasMinimum \in BOOLEAN

VARIABLES
  rows,    \* the listings table
  avatars, \* listings whose avatar is being fetched
  calls,   \* the call each tab awaits
  stored,  \* outmine:owned in localStorage
  owned,   \* App's `owned`, per tab
  writes,  \* the list each tab has read and is about to write back
  lost     \* listings whose token has gone, for a cause that is named (history)

table == <<rows, avatars>>
kept  == <<stored, owned, writes, lost>>
vars  == <<table, calls, kept>>

Fine == Names \ Blocked

\* Of an icon only this is told: whether an owner uploaded it.
Row == [target : Targets, name : Fine, icon : {"none", "upload"}, earned : BOOLEAN]

\* `token`: whether the token that goes with the call is the listing's own.
Asked ==
  [op : {"create"}, target : Targets, said : Said]
    \cup [op : {"edit"}, id : Ids, token : BOOLEAN, said : Said]
    \cup [op : {"icon", "encoding"}, id : Ids, token : BOOLEAN]

\* An answer on its way back, of any status: `id` where it carries a new listing
\* and its token.
Answered == [op : {"answer"}, id : Ids \cup {None}]

\* A list to be written: `new` where it is for a listing just created, `came` what
\* other tabs have stored since it was read, `blind` when reading it threw.
Write == [list : SUBSET Ids, new : Ids \cup {None}, came : SUBSET Ids, blind : BOOLEAN]

TypeOK ==
  /\ rows \in [Ids -> Row \cup {None}]
  /\ avatars \subseteq Ids
  /\ calls \in [Tabs -> Asked \cup Answered \cup {None}]
  /\ stored \subseteq Ids /\ owned \in [Tabs -> SUBSET Ids]
  /\ writes \in [Tabs -> Write \cup {None}]
  /\ lost \subseteq Ids

ASSUME NoCall == None \notin Asked \cup Answered \cup Write

Init ==
  /\ rows = [l \in Ids |-> None] /\ avatars = {}
  /\ calls = [t \in Tabs |-> None]
  /\ stored = {} /\ owned = [t \in Tabs |-> {}]
  /\ writes = [t \in Tabs |-> None]
  /\ lost = {}

Listed == {l \in Ids : rows[l] # None}

Awaits(t, op) == calls[t] # None /\ calls[t].op = op

\* The call of t is answered.
Answers(t) == calls' = [calls EXCEPT ![t] = [op |-> "answer", id |-> None]]

\* What a tab has created and not been told of yet.
Untold(t) == IF Awaits(t, "answer") THEN {calls[t].id} \ {None} ELSE {}

-----------------------------------------------------------------------------
(* The forms.                                                              *)

\* One thread per tab: what reads and writes storage is not interrupted by itself.
Idle(t) == writes[t] = None

Sends(t, call) ==
  /\ Idle(t) /\ calls[t] = None
  /\ calls' = [calls EXCEPT ![t] = call]
  /\ UNCHANGED <<table, kept>>

\* submit(), which does nothing while `sending`.
Submit(t, target, said) == Sends(t, [op |-> "create", target |-> target, said |-> said])

\* save() of a panel, which has the token; a call without a panel has another.
Save(t, l, said) ==
  Sends(t, [op |-> "edit", id |-> l, token |-> l \in owned[t], said |-> said])

\* upload() of a panel, or a call that does not ask for the points first.
Upload(t, l) == Sends(t, [op |-> "icon", id |-> l, token |-> l \in owned[t]])

\* ownedListings(): what is stored at that moment, or nothing when reading throws.
Readings == {stored, {}}

\* Broken on purpose: a list that is written over with what is new.
OnlyTheNew(s, l) == {l}

Remembered(s, l) == s \cup {l}

\* rememberOwned and forgetOwned up to the write.
WillWrite(t, s, list, new) ==
  writes' = [writes EXCEPT ![t] = [list |-> list, new |-> new, came |-> {}, blind |-> s # stored]]

\* claim(), told of a listing and its token.
Claim(t) ==
  /\ Idle(t) /\ Untold(t) # {}
  /\ \E s \in Readings : WillWrite(t, s, Remembered(s, calls[t].id), calls[t].id)
  /\ UNCHANGED <<table, calls, stored, owned, lost>>

\* forget(), confirmed.
Forget(t, l) ==
  /\ Idle(t) /\ l \in owned[t]
  /\ \E s \in Readings : WillWrite(t, s, s \ {l}, None)
  /\ lost' = lost \cup {l}
  /\ UNCHANGED <<table, calls, stored, owned>>

\* What other tabs are about to write does not know what has come since.
Stale(t, s) ==
  [u \in Tabs |-> IF u = t \/ Idle(u) THEN None
                  ELSE [writes[u] EXCEPT !.came = @ \cup (s \ stored)]]

\* What it may have that this tab did not see.
Unseen(t) == IF writes[t].blind THEN stored ELSE writes[t].came

\* write(): a storage that throws keeps what it had, and nobody hears of it; one that
\* does not has this list and no other.  App then shows what storage says.
Stores(t) ==
  /\ ~Idle(t)
  /\ LET w == writes[t]
     IN  /\ stored' \in {w.list, stored}
         /\ lost' = lost \cup ((Unseen(t) \cup ({w.new} \ {None})) \ stored')
         /\ calls' = IF w.new = None THEN calls ELSE [calls EXCEPT ![t] = None]
  /\ \E s \in {stored', {}} : owned' = [owned EXCEPT ![t] = s]
  /\ writes' = Stale(t, stored')
  /\ UNCHANGED table

\* Any other answer is shown, and the form comes back.
Told(t) ==
  /\ Idle(t) /\ Awaits(t, "answer") /\ Untold(t) = {}
  /\ calls' = [calls EXCEPT ![t] = None]
  /\ UNCHANGED <<table, kept>>

\* The network loses the call, or its answer; request() makes that an error.
Lose(t) ==
  /\ Idle(t) /\ calls[t] # None /\ calls[t].op # "encoding"
  /\ Answers(t)
  /\ lost' = lost \cup Untold(t)
  /\ UNCHANGED <<table, stored, owned, writes>>

\* The page is loaded again, and what it had asked for with it.  Bound of the
\* model: not while an icon is being encoded, and what is not handled yet is lost.
Reload(t) ==
  /\ ~Awaits(t, "encoding")
  /\ calls' = [calls EXCEPT ![t] = None]
  /\ writes' = [writes EXCEPT ![t] = None]
  /\ \E s \in Readings : owned' = [owned EXCEPT ![t] = s]
  /\ lost' = lost \cup Untold(t)
  /\ UNCHANGED <<table, stored>>

-----------------------------------------------------------------------------
(* The server.                                                             *)

\* Broken on purpose: a target is only looked for among what is on show.
TakenOnShow(target) == \E l \in Listed : rows[l].target = target /\ rows[l].earned

Taken(target) == \E l \in Listed : rows[l].target = target

\* checkedName and checkedTagline, in the order they run.
Passes(said) == said.name \in Fine /\ said.tagline \in Fine

CreateRefused(t) ==
  /\ Awaits(t, "create")
  /\ ~Passes(calls[t].said)
  /\ Answers(t)
  /\ UNCHANGED <<table, kept>>

CreateTaken(t) ==
  /\ Awaits(t, "create")
  /\ Passes(calls[t].said) /\ Taken(calls[t].target)
  /\ Answers(t)
  /\ UNCHANGED <<table, kept>>

NewRow(call) == [target |-> call.target, name |-> call.said.name, icon |-> "none", earned |-> FALSE]

\* Ids are random: none is ever drawn a second time.
Drawn == Listed \cup stored \cup lost \cup UNION {Untold(t) : t \in Tabs}

\* The insert, under an id that is free: one that is not is drawn again.  SQLite
\* may throw before it; or after it, at countHit, and the caller is told nothing.
CreateListing(t) ==
  /\ Awaits(t, "create")
  /\ Passes(calls[t].said) /\ ~Taken(calls[t].target)
  /\ \/ Answers(t) /\ UNCHANGED <<table, lost>>
     \/ \E l \in Ids \ Drawn :
          /\ rows' = [rows EXCEPT ![l] = NewRow(calls[t])]
          /\ \/ Answers(t) /\ lost' = lost \cup {l} /\ UNCHANGED avatars
             \/ /\ calls' = [calls EXCEPT ![t] = [op |-> "answer", id |-> l]]
                /\ avatars' = IF calls[t].target \in Handles /\ HasProxy
                              THEN avatars \cup {l} ELSE avatars
                /\ UNCHANGED lost
  /\ UNCHANGED <<stored, owned, writes>>

\* Broken on purpose: the row is enough.
ListedAnyway(call) == rows[call.id] # None

\* owned(): the row, and the token that goes with it.
Owns(call) == rows[call.id] # None /\ call.token

EditRefused(t) ==
  /\ Awaits(t, "edit")
  /\ ~Owns(calls[t]) \/ calls[t].said.name \notin Fine
  /\ Answers(t)
  /\ UNCHANGED <<table, kept>>

\* updateListing: the name is written before the tagline is looked at, so what is
\* refused for its tagline, or fails there, has changed the name.
Edit(t) ==
  /\ Awaits(t, "edit")
  /\ Owns(calls[t]) /\ calls[t].said.name \in Fine
  /\ rows' = [rows EXCEPT ![calls[t].id].name = calls[t].said.name]
  /\ Answers(t)
  /\ UNCHANGED <<avatars, kept>>

\* setIcon up to its await: token and points are looked at here and not again.
IconAllowed(call) == Owns(call) /\ (rows[call.id].earned \/ ~HasMinimum)

IconRefused(t) ==
  /\ Awaits(t, "icon")
  /\ ~IconAllowed(calls[t])
  /\ Answers(t)
  /\ UNCHANGED <<table, kept>>

Encode(t) ==
  /\ Awaits(t, "icon")
  /\ IconAllowed(calls[t])
  /\ calls' = [calls EXCEPT ![t].op = "encoding"]
  /\ UNCHANGED <<table, kept>>

\* UPDATE listings SET icon: a row that is gone is not there to be updated.
WithIcon(l, how) == IF rows[l] = None THEN rows ELSE [rows EXCEPT ![l].icon = how]

\* checkedIcon took the bytes, or did not.  For a row that is gone by then the
\* route fails: there is no listing to answer with.
SetIcon(t) ==
  /\ Awaits(t, "encoding")
  /\ LET l == calls[t].id
     IN  UNCHANGED rows \/ rows' = WithIcon(l, "upload")
  /\ Answers(t)
  /\ UNCHANGED <<avatars, kept>>

\* fetchHandleAvatar comes back, with an icon or with nothing: one in the place of
\* what was uploaded is no upload.
Avatar(l) ==
  /\ l \in avatars
  /\ avatars' = avatars \ {l}
  /\ UNCHANGED rows \/ rows' = WithIcon(l, "none")
  /\ UNCHANGED <<calls, kept>>

\* The score reaches iconMinPoints.
Earn(l) ==
  /\ rows[l] # None /\ ~rows[l].earned
  /\ rows' = [rows EXCEPT ![l].earned = TRUE]
  /\ UNCHANGED <<avatars, calls, kept>>

\* DELETE, by the administrator
Takedown(l) ==
  /\ rows[l] # None
  /\ rows' = [rows EXCEPT ![l] = None]
  /\ UNCHANGED <<avatars, calls, kept>>

-----------------------------------------------------------------------------
Browser(t) ==
  \/ \E said \in Said : (\E x \in Targets : Submit(t, x, said)) \/ (\E l \in Ids : Save(t, l, said))
  \/ \E l \in Ids : Upload(t, l) \/ Forget(t, l)
  \/ Claim(t) \/ Stores(t) \/ Told(t) \/ Lose(t) \/ Reload(t)

Answer(t) ==
  \/ CreateRefused(t) \/ CreateTaken(t) \/ CreateListing(t)
  \/ EditRefused(t) \/ Edit(t) \/ IconRefused(t) \/ Encode(t) \/ SetIcon(t)

Next ==
  \/ \E t \in Tabs : Browser(t) \/ Answer(t)
  \/ \E l \in Ids : Avatar(l) \/ Earn(l) \/ Takedown(l)

Spec == Init /\ [][Next]_vars

-----------------------------------------------------------------------------
(* Safety.                                                                 *)

\* Two listings never have one target, however the creations interleave.
OneListingEach == TypeOK /\ \A l, k \in Listed : rows[l].target = rows[k].target => l = k

\* "If it is not kept here it is gone for good": of every listing the token is
\* stored, or on its way to the tab that asked; or the answer was lost, storage
\* would not have it, or the visitor let it go; or a tab wrote its list back that
\* had read it before the token came, or could not read it.  No other listing, no
\* other tab and no takedown costs a token.
TokenHasAHome ==
  \A l \in Listed : l \in stored \cup lost \/ \E t \in Tabs : l \in Untold(t)

\* The token and the points are checked before the encoder is awaited: when an
\* icon is written they still hold, whatever has been asked for meanwhile.
IconIsOwnAndEarned ==
  [][\A l \in Listed :
       rows'[l] # None /\ rows'[l].icon = "upload" /\ rows[l].icon # "upload" =>
         /\ rows[l].earned \/ ~HasMinimum
         /\ \E t \in Tabs : Awaits(t, "encoding") /\ calls[t].id = l /\ calls[t].token]_vars
=============================================================================
