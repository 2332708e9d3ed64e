------------------------------ MODULE MCWebPage ------------------------------
(***************************************************************************)
(* Instances of WebPage for TLC: a group of two nodes that starts, is      *)
(* linked and ends while a page follows it; a node no stat speaks for; and *)
(* recordings to walk through, with an idle flow or beside a live one.     *)
(***************************************************************************)
EXTENDS WebPage

MCNodes  == {11, 12, 13}
MCGroups == {1}
MCGroupOf == [n \in MCNodes |-> 1]
MCStatsOf == [n \in MCNodes |-> IF n = 11 THEN <<21>> ELSE <<>>]

Link == <<11, 12>>

Ends(steps(_)) == [t \in {UserThread} \cup MCNodes \cup MCGroups |-> steps(t)]

Budget(mounts, drops, fails, opens, clicks) ==
    [mounts |-> mounts, drops |-> drops, fails |-> fails, opens |-> opens, clicks |-> clicks]

Online == [api |-> TRUE, push |-> TRUE]

\* Two nodes are made and run, are linked and are not any more; the first one ends.
\* A page is opened at any time.
TwoNodes == [flowStats |-> <<20>>, gone |-> 1,
             user |-> NodeCreated(11) \o NodeCreated(12) \o Connected(Link) \o Disconnected(Link)
                        \o NodeRunning(11) \o NodeRunning(12) \o GroupRunning(1),
             ends |-> Ends(LAMBDA t : CASE t = 11 -> NodeDone(11) [] OTHER  -> <<>>),
             config |-> Online, budget |-> Budget(1, 0, 0, 0, 0)]

\* A node without stats that ends loses its link as it does.
Leaf == <<12, 13>>
Parting == [flowStats |-> <<20>>, gone |-> 2,
            user |-> Connected(Leaf) \o NodeRunning(12) \o NodeRunning(13) \o GroupRunning(1),
            ends |-> Ends(LAMBDA t : CASE t = 12 -> Disconnected(Leaf) \o NodeDone(12)
                                       [] OTHER  -> <<>>),
            config |-> Online, budget |-> Budget(1, 0, 0, 0, 0)]

\* A node without stats in a flow without stats, which its deltas may forget; the
\* network fails once, the server once.
NoStats == [flowStats |-> <<>>, gone |-> 0,
            user |-> NodeRunning(12) \o GroupRunning(1),
            ends |-> Ends(LAMBDA t : CASE t = 12 -> NodeDone(12) [] t = 1 -> GroupDone(1) [] OTHER -> <<>>),
            config |-> Online, budget |-> Budget(1, 1, 1, 0, 0)]

\* A flow in which nothing happens any more, and a replay: of one recording at
\* length, of two in turn or at once.
Still == [flowStats |-> <<>>, gone |-> MaxPeriods, user |-> <<>>, ends |-> Ends(LAMBDA t : <<>>),
          config |-> Online, budget |-> Budget(0, 0, 0, 1, 5)]
Again == [Still EXCEPT !.budget = Budget(0, 0, 0, 2, 2)]

\* A group that starts while a file is opened and closed.
Beside == [flowStats |-> <<>>, gone |-> 1, user |-> GroupRunning(1), ends |-> Ends(LAMBDA t : <<>>),
           config |-> Online, budget |-> Budget(1, 0, 0, 1, 1)]

\* A page that is served alone, to look at recordings.
Alone == [Beside EXCEPT !.config = [api |-> FALSE, push |-> FALSE], !.user = <<>>]

\* A group that starts and ends beside a replay, while the server or the network
\* fails once; and the same for a page that is pushed to and cannot ask.
Missing == [Beside EXCEPT !.ends = Ends(LAMBDA t : IF t = 1 THEN GroupDone(1) ELSE <<>>),
                          !.budget = Budget(1, 0, 1, 1, 1)]
Unasked == [Missing EXCEPT !.config = [api |-> FALSE, push |-> TRUE]]

MCPrograms == {TwoNodes, Parting, NoStats, Still, Again, Beside, Alone, Missing, Unasked}

\* What the theorem about CatchUpAgrees supposes of programs is true of these.
ASSUME LinkedInTurnHere == \A p \in MCPrograms : LinkedInTurn(p)

---------------------------------------------------------------------------
Line(at, delta) == [at |-> at, parses |-> TRUE, delta |-> delta]

\* Three lines, two within a second; a node joins with its links and leaves with one.
Walk == <<
    Line(1, [NoDelta EXCEPT !.startedGroups = <<1>>,
                            !.startedNodes = <<[id |-> 11, group |-> 1], [id |-> 13, group |-> 1]>>,
                            !.newStats = <<[id |-> 20, node |-> NoNode], [id |-> 21, node |-> 11],
                                           [id |-> 23, node |-> 13]>>,
                            !.connected = <<<<11, 13>>>>,
                            !.values = 20 :> 1 @@ 21 :> 1 @@ 23 :> 1]),
    Line(1, [NoDelta EXCEPT !.startedGroups = <<2>>,
                            !.startedNodes = <<[id |-> 12, group |-> 2]>>,
                            !.newStats = <<[id |-> 22, node |-> 12]>>,
                            !.connected = <<<<11, 12>>>>,
                            !.values = 20 :> 2 @@ 21 :> 2 @@ 22 :> 2 @@ 23 :> 2]),
    Line(2, [NoDelta EXCEPT !.disconnected = <<<<11, 12>>>>, !.doneNodes = <<12>>,
                            !.doneGroups = <<2>>,
                            !.values = 20 :> 3 @@ 21 :> 3 @@ 23 :> 3]) >>

\* A line that was cut while it was written, after one that was not.
Torn == << Line(1, [NoDelta EXCEPT !.startedGroups = <<1>>,
                                   !.startedNodes = <<[id |-> 11, group |-> 1]>>,
                                   !.newStats = <<[id |-> 21, node |-> 11]>>,
                                   !.values = 21 :> 1]),
           [at |-> 2, parses |-> FALSE, delta |-> NoDelta] >>

\* A flow that ended before its first period.
NoLines == <<>>

MCRecordings == {Walk, Torn, NoLines}
=============================================================================
