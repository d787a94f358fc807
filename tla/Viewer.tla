------------------------------- MODULE Viewer -------------------------------
(***************************************************************************)
(* `repocli view' (viewer/server.go) and the pages that it serves          *)
(* (static/app.js).  The server publishes one captured snapshot at a time: *)
(* the graph together with its source bytes.  Several pages load it, read  *)
(* sources by the identity of the snapshot, and ask for a new capture,     *)
(* while the working tree is edited.  Requests and answers of a page may   *)
(* overtake each other.  A snapshot is abstracted to the contents it was   *)
(* captured with, which its identity is a digest of, and to when that was. *)
(***************************************************************************)
EXTENDS Naturals, FiniteSets

CONSTANTS Page, Snapshot, Path,
          MaxTreeEdits,        \* bounds: edits of the tree, and by page how often
          MaxClicks            \* its details are replaced

VARIABLES
    workingTree,  \* what the tree holds now
    edits,        \* how often it has been edited
    current,      \* server.current: [content, at]
    builds,       \* by page: the capture its refresh is at, <<>>, <<"begun">> or <<"captured", it>>
    pages,
    wire          \* requests and answers under way

viewerVars == <<workingTree, edits, current, builds, pages, wire>>

\* What is not there yet is <<>>; what is there is tagged: <<"ok", data>>, ...
Nothing == <<>>
Data(reply) == reply[2]
Capture == [content |-> workingTree, at |-> edits]

Send(r) == wire' = wire \cup {r}
Answer(r, with) == wire' = (wire \ {r}) \cup {[r EXCEPT !.reply = with]}
Request(p, type, snapshot, path) ==
    [page |-> p, type |-> type, snapshot |-> snapshot, path |-> path,
     epoch |-> pages[p].epoch, reply |-> Nothing]
Asked(type) == {r \in wire : r.type = type /\ r.reply = Nothing}
Answered(type) == {r \in wire : r.type = type /\ r.reply # Nothing}

-----------------------------------------------------------------------------
(* The server.                                                             *)

EditTree ==
    /\ edits < MaxTreeEdits /\ edits' = edits + 1
    /\ workingTree' \in Snapshot \ {workingTree}
    /\ UNCHANGED <<current, builds, pages, wire>>

\* GET /api/graph.
Graph ==
    \E r \in Asked("graph") :
        /\ Answer(r, <<"ok", current>>)
        /\ UNCHANGED <<workingTree, edits, current, builds, pages>>

\* GET /api/source: 409 unless the page has the snapshot that is current.
Source ==
    \E r \in Asked("source") :
        /\ Answer(r, IF r.snapshot = current.content
                     THEN <<"ok", [content |-> current.content, path |-> r.path]>>
                     ELSE <<"conflict">>)
        /\ UNCHANGED <<workingTree, edits, current, builds, pages>>

\* A mutant: a refresh does not look whether another one is running.
BeginAnyRefresh ==
    \E r \in Asked("refresh") :
        /\ builds[r.page] = Nothing
        /\ builds' = [builds EXCEPT ![r.page] = <<"begun">>]
        /\ UNCHANGED <<workingTree, edits, current, pages, wire>>

\* POST /api/refresh with the lock free.
BeginRefresh ==
    /\ \A p \in Page : builds[p] = Nothing
    /\ \E r \in Asked("refresh") :
          builds' = [builds EXCEPT ![r.page] = <<"begun">>]
    /\ UNCHANGED <<workingTree, edits, current, pages, wire>>

RefuseRefresh ==
    /\ \E p \in Page : builds[p] # Nothing
    /\ \E r \in Asked("refresh") : builds[r.page] = Nothing /\ Answer(r, <<"conflict">>)
    /\ UNCHANGED <<workingTree, edits, current, builds, pages>>

\* The Loader has the contents; parsing them takes until Publish or FailRefresh.
CaptureTree ==
    \E p \in Page :
        /\ builds[p] = <<"begun">>
        /\ builds' = [builds EXCEPT ![p] = <<"captured", Capture>>]
        /\ UNCHANGED <<workingTree, edits, current, pages, wire>>

Publish ==
    \E r \in Asked("refresh") :
        /\ builds[r.page] # Nothing /\ builds[r.page] # <<"begun">>
        /\ current' = Data(builds[r.page])
        /\ builds' = [builds EXCEPT ![r.page] = Nothing]
        /\ Answer(r, <<"ok", current'>>)
        /\ UNCHANGED <<workingTree, edits, pages>>

\* An error or a deadline of the build, or the page has gone: the graph stays.
FailRefresh ==
    \E r \in Asked("refresh") :
        /\ builds[r.page] # Nothing
        /\ builds' = [builds EXCEPT ![r.page] = Nothing]
        /\ Answer(r, <<"error">>)
        /\ UNCHANGED <<workingTree, edits, current, pages>>

-----------------------------------------------------------------------------
(* A page.                                                                 *)

Open(p) ==
    /\ pages[p].model = Nothing /\ \A r \in wire : r.page # p
    /\ Send(Request(p, "graph", Nothing, Nothing))
    /\ UNCHANGED <<workingTree, edits, current, builds, pages>>

\* setModel: what the details showed belongs to the model before.
WithModel(page, reply) ==
    [page EXCEPT !.model = reply, !.epoch = @ + 1, !.selected = Nothing, !.shown = Nothing]

ShowGraph ==
    \E r \in Answered("graph") :
        /\ wire' = wire \ {r}
        /\ pages' = [pages EXCEPT ![r.page] = WithModel(@, r.reply)]
        /\ UNCHANGED <<workingTree, edits, current, builds>>

\* showNode.
Select(p, path) ==
    /\ pages[p].model # Nothing /\ pages[p].epoch < MaxClicks[p]
    /\ pages' = [pages EXCEPT ![p].epoch = @ + 1, ![p].selected = path, ![p].shown = Nothing]
    /\ Send([Request(p, "source", Data(pages[p].model).content, path) EXCEPT !.epoch = @ + 1])
    /\ UNCHANGED <<workingTree, edits, current, builds>>

\* A mutant: an answer is shown whenever it comes.
IsLate(r) == FALSE

\* The details have been replaced since the source was asked for.
Late(r) == r.epoch # pages[r.page].epoch

ShowSource ==
    \E r \in Answered("source") :
        /\ wire' = wire \ {r}
        /\ pages' = IF Late(r) THEN pages ELSE [pages EXCEPT ![r.page].shown = r.reply]
        /\ UNCHANGED <<workingTree, edits, current, builds>>

\* The button is disabled until the answer has come.
PressRefresh(p) ==
    /\ ~pages[p].refreshing /\ pages[p].epoch < MaxClicks[p]
    /\ pages' = [pages EXCEPT ![p].refreshing = TRUE]
    /\ Send(Request(p, "refresh", Nothing, Nothing))
    /\ UNCHANGED <<workingTree, edits, current, builds>>

ShowRefresh ==
    \E r \in Answered("refresh") :
        /\ wire' = wire \ {r}
        /\ pages' = [pages EXCEPT ![r.page] =
                        [(IF r.reply[1] # "ok" THEN @ ELSE WithModel(@, r.reply))
                            EXCEPT !.refreshing = FALSE]]
        /\ UNCHANGED <<workingTree, edits, current, builds>>

-----------------------------------------------------------------------------
\* Run: it serves once the first graph is there.
ViewerInit ==
    /\ workingTree \in Snapshot /\ edits = 0
    /\ current = Capture
    /\ builds = [p \in Page |-> Nothing]
    /\ pages = [p \in Page |-> [model |-> Nothing, epoch |-> 0, selected |-> Nothing,
                                shown |-> Nothing, refreshing |-> FALSE]]
    /\ wire = {}

ViewerNext ==
    \/ EditTree \/ Graph \/ Source \/ BeginRefresh \/ RefuseRefresh \/ CaptureTree
    \/ Publish \/ FailRefresh \/ ShowGraph \/ ShowSource \/ ShowRefresh
    \/ \E p \in Page :
          \/ Open(p) \/ PressRefresh(p)
          \/ \E path \in Path : Select(p, path)

ViewerSpec == ViewerInit /\ [][ViewerNext]_viewerVars

-----------------------------------------------------------------------------
(* Properties.                                                             *)

\* "Graph nodes, relations and displayed source belong to one captured
\* snapshot": the source on a page is the one of its selected node in the
\* capture its graph was built from, though another page may have refreshed the
\* server meanwhile, and answers to earlier selections may come later.
SourceOfThePage ==
    \A p \in Page : pages[p].shown # Nothing /\ pages[p].shown[1] = "ok" =>
        Data(pages[p].shown) = [content |-> Data(pages[p].model).content, path |-> pages[p].selected]

\* The published snapshot never goes back to an earlier capture, whichever of the
\* refreshes is done first.
RefreshAdvances == [][current' # current => current'.at >= current.at]_viewerVars
=============================================================================
