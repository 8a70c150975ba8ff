---------------------------- MODULE ClientPages ----------------------------
(***************************************************************************)
(* The pages of the web interface at work: the user moves controls, leaves *)
(* pages and writes, effects run until nothing changes, calls to the       *)
(* server are answered in any order, some fail and some are refused with a *)
(* 401 and asked again. One slice of the store is looked at in full; of    *)
(* the others only whether they are set, as effects depend on that.        *)
(*                                                                         *)
(* One action is one turn of the browser's event loop with the effects it  *)
(* leads to, or one step of the server.                                    *)
(***************************************************************************)
EXTENDS ClientViews, SequencesExt

CONSTANTS
    Watched,     \* the views looked at: [page, slice]
    MaxMoves,    \* bound: how often the user acts, by the slice
    MaxPending,  \* bound: the user acts with at most so many calls under way
    MaxTroubles  \* bound: how many calls fail or are refused

ViewsOf(p) == UNION {[page : {p}, slice : DOMAIN Components[c].shows] : c \in RangeOf(Pages[p])}
ASSUME ViewsAreKnown == \A v \in Watched : v \in ViewsOf(v.page)
ASSUME BoundsAreNat == MaxMoves \in [Slices -> Nat] /\ MaxPending \in Nat /\ MaxTroubles \in Nat

VARIABLES
    slice,     \* the slice looked at
    page,      \* the page on the screen
    ctl,       \* the controls that are not at their first value
    fading,    \* the dialogs that are closed, but not gone
    store,     \* the slices that are set
    calls,     \* the calls under way, in the order they were dispatched
    writes,    \* what the user did: state sent, done (by the server), answered; raced: a read that
               \* was under way at the same time may hide it; awaited: what follows waits for it
    shown,     \* what the slice holds
    restless,  \* the changes effects still had to run for when React gave up
    moves,     \* how often the user acted
    troubles   \* how many calls failed or were refused

RECURSIVE Run(_, _, _), RunDue(_, _, _, _), RunParts(_, _, _, _), React(_, _)

vars == <<slice, page, ctl, fading, store, calls, writes, shown, restless, moves, troubles>>

(***************************************************************************)
(* What is under way. asked: the controls a read passes on that are moved; *)
(* write: which write it is, or 0; seen: the writes that are in the answer;*)
(* stray: a newer read of the slice was answered before; after: the calls  *)
(* whose answers led to it, one by the other; then: the steps that wait    *)
(* for it, with the controls env as they were.                             *)
(***************************************************************************)
Call(thunk, asked, write, after, then, env) ==
    [thunk |-> thunk, asked |-> asked, write |-> write, answer |-> "none", seen |-> {},
     stray |-> FALSE, after |-> after, then |-> then, env |-> env]
ThunkOf(name) == Thunks[name]
MethodOf(thunk) == Operation(ThunkOf(thunk).op).method
IsRead(thunk) == MethodOf(thunk) = "GET"
\* adminMode is a boolean: a read finds what the last toggle left, and nothing changes.
Result(thunk) == {e \in EffectsOf(ThunkOf(thunk).type) : ~(e.slice = "adminMode" /\ IsRead(thunk))}
Answers(thunk) == {e.slice : e \in Result(thunk)}
Touches(thunk, name) == name \in Answers(thunk)
IsLocal(thunk) == MethodOf(thunk) = "none"
Reads(call) == call.write = 0 /\ Touches(call.thunk, slice)
ReadsOf(cs) == {i \in DOMAIN cs : Reads(cs[i])}
DoneWrites == {w \in DOMAIN writes : writes[w].state \in {"done", "answered"}}
Empty == [asked |-> {}, seen |-> {}, twice |-> {}, current |-> FALSE]

\* What a slice holds is changed on the server by
Writers ==
    [datasets |-> {"datasetDeleted", "updateDataset"}, about |-> {"updateDataset"},
     license |-> {"updateDatasetLicense"}, frozenDatasets |-> {"freezeDataset", "deleteFreezeDataset"},
     roles |-> {"setDatasetUserRole", "setDatasetGroupRole", "removeDatasetUserRole", "removeDatasetGroupRole"},
     foldersAndFiles |-> {"createFiles", "fileDeleted", "folderDeleted", "folderAdded", "updateFolder", "updateFile"},
     fileSummary |-> {"updateFile"}, fileVersions |-> {"updateFile"},
     groups |-> {"createGroup", "deleteGroup", "updateGroup"},
     groupAbout |-> {"updateGroup", "addGroupMember", "deleteGroupMember", "assignGroupMemberRole"},
     users |-> {"setAdmin", "revokeAdmin", "enableReadOnly", "disableReadOnly"},
     apiKeys |-> {"generateApiKey", "deleteApiKey"}, listeners |-> {"enableListener", "disableListener"},
     feeds |-> {"createFeed", "updateFeed", "deleteFeed"}, feed |-> {"updateFeed"},
     metadataDefinitionList |-> {"postMetadataDefinition", "updateMetadataDefinition", "deleteMetadataDefinition"},
     metadataDefinition |-> {"updateMetadataDefinition"},
     datasetMetadataList |-> {"postDatasetMetadata", "patchDatasetMetadata", "deleteDatasetMetadata"},
     fileMetadataList |-> {"postFileMetadata", "patchFileMetadata", "deleteFileMetadata"}]
ChangedBy(name) == IF name \in DOMAIN Writers THEN Writers[name] ELSE {}

(***************************************************************************)
(* The screen: everything a turn of the event loop changes; mounted: the   *)
(* parts of the page that were drawn before.                               *)
(***************************************************************************)
PartsOf(p) == Pages[p]
ComponentOf(c) == Components[c]
PartOf(p, i) == ComponentOf(PartsOf(p)[i])
Mounted(s) ==
    {i \in DOMAIN PartsOf(s.page) : /\ PartOf(s.page, i).inside \subseteq s.ctl \cup s.fading
                                  /\ PartOf(s.page, i).outside \cap s.ctl = {}}
Drawn == [page |-> page, ctl |-> ctl, fading |-> fading, store |-> store, calls |-> calls, writes |-> writes,
          shown |-> shown, changed |-> {}]
Screen == Drawn @@ [mounted |-> Mounted(Drawn), after |-> <<>>]
Drawing == {i \in Mounted(Drawn) : slice \in DOMAIN PartOf(page, i).shows}
Shows == UNION {PartOf(page, i).shows[slice] : i \in Drawing}

(***************************************************************************)
(* Calls that can tell the slice nothing are left out: those that neither  *)
(* touch it nor change what it shows, nor a slice an effect that asks for  *)
(* it or moves a control depends on.                                       *)
(***************************************************************************)
Bears(e, name) ==
    \E step \in RangeOf(e.run) : step.do # "dispatch" \/ Touches(step.what, name) \/ step.what \in ChangedBy(name)
On(e) == e.on \cup UNION {step.when \cup step.unless : step \in RangeOf(e.run)}
Signal == Slices \cup RangeOf(FirstOf)
IsTelling(p, name, signal) ==
    \E c \in RangeOf(PartsOf(p)) : \E e \in RangeOf(ComponentOf(c).effects) : signal \in On(e) /\ Bears(e, name)
\* (With @@ TLC keeps it as a table.)
Telling ==
    [v \in (DOMAIN Pages) \X {w.slice : w \in Watched} |-> {s \in Signal : IsTelling(v[1], v[2], s)}] @@ <<>>
Signals(s, name) == {name} \cup (IF name \in DOMAIN FirstOf /\ name \notin s.store THEN {FirstOf[name]} ELSE {})
Tells(s, thunk) ==
    \/ Touches(thunk, slice) \/ thunk \in ChangedBy(slice)
    \/ \E name \in Answers(thunk) : Signals(s, name) \cap Telling[s.page, slice] # {}
Matters(s, step) == Tells(s, step.what) \/ \E st \in RangeOf(step.then) : st.do # "dispatch" \/ Tells(s, st.what)

(***************************************************************************)
(* What the reducers do with an answer.                                    *)
(***************************************************************************)
Patched(shn, e, call) ==
    CASE e.how = "put" /\ call.write = 0 ->
            [asked |-> call.asked, seen |-> call.seen, twice |-> {}, current |-> ~call.stray]
      [] e.how = "put" /\ call.write # 0 ->
            [shn EXCEPT !.seen = call.seen, !.twice = {}, !.current = @ /\ shn.seen \subseteq call.seen]
      [] e.how = "append" ->
            [shn EXCEPT !.seen = @ \cup {call.write}, !.twice = @ \cup ({call.write} \cap shn.seen)]
      [] e.how \in {"map", "filter"} -> [shn EXCEPT !.seen = @ \cup {call.write}]
      [] e.how = "clear" -> Empty
      [] OTHER -> shn
Reduce(s, e, call) ==
    LET clears == e.how = "clear" IN
    [s EXCEPT !.store = IF clears THEN @ \ {e.slice} ELSE @ \cup {e.slice},
              !.changed = IF clears /\ e.slice \notin s.store THEN @ ELSE @ \cup Signals(s, e.slice),
              !.shown = IF e.slice = slice THEN Patched(@, e, call) ELSE @]
Absorb(s, call) == FoldSet(LAMBDA e, t : Reduce(t, e, call), s, Result(call.thunk))

(***************************************************************************)
(* Running the steps of an effect or a handler. env: the controls and the  *)
(* store as they were when the page was drawn, with what the user moves.   *)
(***************************************************************************)
Dispatch(s, env, step) ==
    LET th == step.what
        w == IF IsRead(th) THEN 0 ELSE Len(s.writes) + 1
    IN  IF IsLocal(th) THEN Absorb(s, Call(th, {}, 0, <<>>, <<>>, {}))
        ELSE IF ~Matters(s, step) THEN s
        ELSE [s EXCEPT !.calls = Append(@, Call(th, step.with \cap env, w, s.after, step.then,
                                                IF step.then = <<>> THEN {} ELSE env)),
                       !.writes = IF w = 0 THEN @ ELSE Append(@,
                           [thunk |-> th, state |-> "sent", raced |-> FALSE, awaited |-> step.then # <<>>])]
\* A variant: whatever is closed fades out.
BecomingFading(s, now) ==
    [s EXCEPT !.ctl = now, !.changed = @ \cup (s.ctl \ now) \cup (now \ s.ctl),
              !.fading = (@ \cup (s.ctl \ now)) \ now]
Becoming(s, now) ==
    [s EXCEPT !.ctl = now, !.changed = @ \cup (s.ctl \ now) \cup (now \ s.ctl),
              !.fading = (@ \cup (Dialogs \cap (s.ctl \ now))) \ now]
Holds(env, step) == step.when \subseteq env /\ step.unless \cap env = {}
Perform(s, env, step) ==
    CASE ~Holds(env, step) -> s
      [] step.do = "dispatch" -> Dispatch(s, env, step)
      [] step.do = "reset" -> Becoming(s, s.ctl \ {step.what})
      [] step.do = "open" -> Becoming(s, s.ctl \cup {step.what})
      [] step.do = "renew" -> [Becoming(s, s.ctl \cup {step.what}) EXCEPT !.changed = @ \cup {step.what}]
      [] step.do = "tab" -> Becoming(s, (s.ctl \ Tabs) \cup ({step.what} \ {""}))
      [] step.do = "go" /\ step.what # s.page ->
            [s EXCEPT !.page = step.what, !.ctl = {}, !.fading = {}, !.mounted = {}, !.changed = {}]
      [] OTHER -> s
Run(s, env, steps) == IF steps = <<>> THEN s ELSE Run(Perform(s, env, Head(steps)), env, Tail(steps))

\* React runs the effects of new parts and those that depend on what changed, and again.
Due(s, i, e) == i \notin s.mounted \/ e.on \cap s.changed # {}
RunDue(t, s, i, effects) ==
    IF effects = <<>> THEN t
    ELSE RunDue(IF Due(s, i, Head(effects)) THEN Run(t, s.ctl \cup s.store, Head(effects).run) ELSE t,
                s, i, Tail(effects))
RunParts(t, s, parts, i) ==
    IF i > Len(PartsOf(s.page)) THEN t
    ELSE RunParts(IF i \in parts THEN RunDue(t, s, i, PartOf(s.page, i).effects) ELSE t, s, parts, i + 1)
Round(s) ==
    LET parts == Mounted(s) IN RunParts([s EXCEPT !.changed = {}, !.mounted = parts], s, parts, 1)
\* The reads of the slice that were dispatched before call i will answer late.
Overtaken(i) ==
    [j \in DOMAIN calls |->
        IF Reads(calls[i]) /\ j < i /\ Reads(calls[j]) THEN [calls[j] EXCEPT !.stray = TRUE] ELSE calls[j]]
Without(i) == [Screen EXCEPT !.calls = RemoveAt(Overtaken(i), i), !.after = Append(calls[i].after, calls[i].thunk)]
\* The thunk shows the failure; what waits for it goes on all the same.
Missed(s, call) == [s EXCEPT !.shown.current = @ /\ (call.stray \/ ~Reads(call))]
\* A thunk that is run again after a 401 loses some of what it asked for; nothing waits for it.
RanAgain(th) ==
    LET again == Again(th)
        loses == ThunkOf(th).loses
    IN  [thunk |-> again, loses |-> loses, same |-> again = th /\ loses = {}]
AskedAgain(call, r) ==
    [call EXCEPT !.thunk = r.thunk, !.asked = @ \ r.loses, !.then = <<>>, !.env = {},
                 !.stray = @ \/ ~r.same, !.answer = "none"]
RanOn(call) == [w \in DOMAIN writes |-> [writes[w] EXCEPT !.raced = @ \/ (w = call.write /\ call.then # <<>>)]]
Retried(i, r) ==
    IF r.same THEN [Screen EXCEPT !.calls[i] = AskedAgain(@, r), !.writes = RanOn(calls[i])]
    ELSE Missed([Screen EXCEPT !.calls = [Overtaken(i) EXCEPT ![i] = AskedAgain(@, r)], !.writes = RanOn(calls[i])],
                calls[i])
React(s, rounds) ==
    IF rounds = 0 \/ (s.changed = {} /\ Mounted(s) \subseteq s.mounted) THEN s ELSE React(Round(s), rounds - 1)
MaxRounds == 6

\* The screen after a turn in which s is changed as it says.
Becomes(s) ==
    \E t \in {React(s, MaxRounds)} :
        /\ page' = t.page /\ ctl' = t.ctl /\ fading' = t.fading /\ store' = t.store /\ calls' = t.calls
        /\ writes' = t.writes /\ shown' = t.shown /\ restless' = t.changed

(***************************************************************************)
(* The user.                                                               *)
(***************************************************************************)
Usable(part) == part.inside \subseteq ctl /\ part.outside \cap ctl = {}
Handlers == UNION {RangeOf(PartOf(page, i).handlers) : i \in {j \in DOMAIN PartsOf(page) : Usable(PartOf(page, j))}}
Chosen(steps) == {step.what : step \in {st \in RangeOf(steps) : st.do = "choose"}}
Flip(s, controls) == Becoming(s, (s.ctl \ controls) \cup (controls \ s.ctl))
MayMove == (moves < MaxMoves[slice] \/ page = "Blank") /\ Len(calls) <= MaxPending
\* A move that changes nothing the slice depends on is left out.
Moves ==
    /\ moves' = IF page = "Blank" THEN 0 ELSE moves + 1
    /\ <<page, ctl, fading, store, calls>>' # <<page, ctl, fading, store, calls>>
    /\ UNCHANGED <<slice, troubles>>
Act(steps) ==
    LET s == Flip(Screen, Chosen(steps)) IN
    /\ Holds(ctl, Head(steps))
    /\ Becomes(Run(s, s.ctl \cup store, steps))
Move == MayMove /\ (\E steps \in Handlers : Act(steps)) /\ Moves
\* A part's timer asks again.
Tick ==
    /\ MayMove
    /\ \E i \in Mounted(Drawn) : Becomes(Run(Screen, ctl \cup store, PartOf(page, i).timer))
    /\ Moves
\* A link leads to a page that draws the slice, or away from it.
Visit ==
    /\ MayMove
    /\ \E p \in {v.page : v \in {w \in Watched : w.slice = slice}} \cup {"Profile"} :
           p # page /\ Becomes(Perform(Screen, {}, Go(p)))
    /\ Moves
\* A dialog has faded out.
Fade == \E d \in fading : Becomes([Screen EXCEPT !.fading = @ \ {d}]) /\ UNCHANGED <<slice, moves, troubles>>

(***************************************************************************)
(* The server, in any order.                                               *)
(***************************************************************************)
\* When a call is served matters to what it tells of the slice, or writes.
IsTimed(call) == call.write # 0 \/ Reads(call)
Serve(i) ==
    LET w == calls[i].write IN
    /\ calls[i].answer = "none" /\ IsTimed(calls[i])
    /\ calls' = [calls EXCEPT ![i] = [@ EXCEPT !.answer = "ok", !.seen = DoneWrites \cup ({w} \ {0})]]
    /\ writes' = IF w = 0 THEN writes ELSE [writes EXCEPT ![w].state = "done"]
    /\ UNCHANGED <<slice, page, ctl, fading, store, shown, restless, moves, troubles>>
Fail(i) ==
    /\ calls[i].answer = "none"
    /\ troubles < MaxTroubles
    /\ troubles' = troubles + 1
    /\ calls' = [calls EXCEPT ![i].answer = "failed"]
    /\ UNCHANGED <<slice, page, ctl, fading, store, writes, shown, restless, moves>>

(***************************************************************************)
(* The answers, in any order.                                              *)
(***************************************************************************)
Answered(s, w) ==
    IF w = 0 THEN s
    ELSE [s EXCEPT !.writes[w].state = "answered",
                   !.writes[w].raced = @ \/ w \in s.shown.seen \/ \E c \in RangeOf(s.calls) : Touches(c.thunk, slice)]
AnswerOk(i) ==
    LET call == calls[i] IN
    /\ call.answer = IF IsTimed(call) THEN "ok" ELSE "none"
    /\ Becomes(Run(Absorb(Answered(Without(i), call.write), call), call.env, call.then))
    /\ UNCHANGED <<slice, moves, troubles>>
\* What waits for a call that failed goes on all the same.
AnswerFailed(i) ==
    /\ calls[i].answer = "failed"
    /\ ThunkOf(calls[i].thunk).via # "itself"
    /\ Becomes(Run(Missed(Without(i), calls[i]), calls[i].env, calls[i].then))
    /\ UNCHANGED <<slice, moves, troubles>>
\* A 401, the refresh, and the thunk again, with what it loses; nothing waits for the second call.
Refuse(i) ==
    /\ \/ calls[i].answer = "none" /\ troubles < MaxTroubles /\ troubles' = troubles + 1
       \/ calls[i].answer = "failed" /\ ThunkOf(calls[i].thunk).via = "itself" /\ UNCHANGED troubles
    /\ \E again \in {RanAgain(calls[i].thunk)} : \E s \in {Retried(i, again)} :
           Becomes(Run(s, calls[i].env, calls[i].then))
    /\ UNCHANGED <<slice, moves>>

\* A tab without a page.
Init ==
    /\ slice \in {v.slice : v \in Watched}
    /\ page = "Blank"
    /\ ctl = {} /\ fading = {} /\ store = {} /\ calls = <<>> /\ writes = <<>> /\ shown = Empty /\ restless = {}
    /\ moves = 0 /\ troubles = 0
CallStep == \E i \in DOMAIN calls : Serve(i) \/ Fail(i) \/ AnswerOk(i) \/ AnswerFailed(i) \/ Refuse(i)
Next == Move \/ Tick \/ Visit \/ Fade \/ CallStep
Spec == Init /\ [][Next]_vars

(***************************************************************************)
(* Properties.                                                             *)
(***************************************************************************)
\* Every variable has its type; a call that answers a write knows the write, and the slice holds
\* only what was written.
TypeOK ==
    /\ page \in DOMAIN Pages /\ slice \in Slices
    /\ store \subseteq Slices /\ fading \subseteq Dialogs /\ moves \in Nat /\ troubles \in 0..MaxTroubles
    /\ \A i \in DOMAIN calls : /\ calls[i].thunk \in DOMAIN Thunks /\ calls[i].write \in 0..Len(writes)
                               /\ calls[i].answer \in {"none", "ok", "failed"} /\ calls[i].stray \in BOOLEAN
    /\ \A w \in DOMAIN writes : writes[w].state \in {"sent", "done", "answered"} /\ writes[w].raced \in BOOLEAN
    /\ shown.seen \cup shown.twice \subseteq DOMAIN writes

\* The effects of a page come to rest: a turn ends with no effect left to run, and the answers of
\* the calls they make never have them make the same calls again and again. Once more is allowed:
\* the dataset page asks for everything again when the first answer brings the id of the license.
\* It breaks when an effect depends on a slice that the answers it asks for put anew each time.
Repeated(call) == {k \in DOMAIN call.after : call.after[k] = call.thunk}
EffectsSettle == restless = {} /\ \A i \in DOMAIN calls : Cardinality(Repeated(calls[i])) <= 1

\* Of a list or document on the screen, the newest read was made for the page, the filters and the
\* ids that the screen shows it for, whatever the user moved since the page was entered and however
\* the answers came: nobody reads page two of something under the heading of something else. It
\* speaks of slices that do not lag behind by the code's design (Lagging) or after a failure.
InOrder(cs) == {i \in ReadsOf(cs) : ~cs[i].stray}
LastAsked == IF InOrder(calls) = {} THEN shown.asked
             ELSE calls[CHOOSE i \in InOrder(calls) : \A j \in InOrder(calls) : j <= i].asked
\* What the code does not keep up with the controls, component by component:
\*   GroupList, MetadataDefinitions: admin mode and a late answer of a delete list without the search;
\*   DatasetVersions: the versions are asked for when the dataset's document is there;
\*   Dataset, PublicDataset: at the root nobody asks for the path, and the old one stays;
\*   AllListeners: paging forgets category and label, and a search forgets every filter;
\*   ExtractionHistoryTab asks for a hundred jobs where the table inside it asks for a page of them,
\*   and neither asks when the dataset or the file changes under them.
Lagging ==
    \/ slice \in {"groups", "metadataDefinitionList"} /\ "searchTerm" \in ctl
    \/ slice = "frozenDatasets" /\ "about" \notin store
    \/ slice \in {"folderPath", "publicFolderPath"} /\ "folderId" \notin ctl
    \/ slice \in {"listeners", "jobs"} /\ page # "ExtractionHistory"
NewestAsksForControls ==
    (InOrder(calls) # {} \/ shown.current) /\ Drawing # {} /\ ~Lagging => LastAsked = (ctl \cup store) \cap Shows

\* The user sees what the user did: when nothing is under way any more, a list or document on the
\* screen has every write that was answered in it, once. A write answered while a read of the slice
\* was under way (raced) may be lost in between, unless an effect of the page asks again after it;
\* what the code never shows is left out (Unshown).
Refetched(thunk) ==
    \E e \in UNION {RangeOf(PartOf(page, i).effects) : i \in DOMAIN PartsOf(page)} :
        /\ e.on \cap {r.slice : r \in Result(thunk)} # {}
        /\ \E step \in RangeOf(e.run) : step.do = "dispatch" /\ Touches(step.what, slice)
\*   UpdateFile asks for the versions of the file again, not for its summary;
\*   CreateGroup, CreateMetadataDefinition: the answer finds its dialog gone, and nobody lists again;
\*   the role dialogs of the sharing tab save without asking for the roles.
Unshown(w) ==
    \/ w.thunk = "updateFile" /\ slice = "fileSummary"
    \/ w.thunk \in {"createGroup", "postMetadataDefinition"}
    \/ slice = "frozenDatasets" /\ "about" \notin store
    \/ w.thunk \in {"setDatasetUserRole", "setDatasetGroupRole"} /\ ~w.awaited
Settled == calls = <<>> /\ shown.current /\ Drawing # {}
OwnWriteShown ==
    Settled =>
        \A w \in DOMAIN writes :
            /\ writes[w].state = "answered" /\ writes[w].thunk \in ChangedBy(slice)
            /\ ~Unshown(writes[w]) /\ (~writes[w].raced \/ Refetched(writes[w].thunk))
            => w \in shown.seen \ shown.twice

\* What the comment in handleMetadataUpdateFinish of Dataset.tsx promises ("pulling lastest from the
\* API endpoint"): once the metadata form was saved and everything answered, the page holds what was
\* saved.
LatestMetadataShown ==
    Settled =>
        \A w \in DOMAIN writes :
            writes[w].state = "answered" /\ writes[w].thunk \in {"patchDatasetMetadata", "postDatasetMetadata"}
            => w \in shown.seen

=============================================================================
