---------------------------- MODULE NbDriverSteps ----------------------------
(***************************************************************************)
(* Facts about the drivers that the proofs of their clients share: what    *)
(* the ladders of each driver acquire and release, and what a call and a   *)
(* step of a driver do to the resources and to the sets of keys.           *)
(***************************************************************************)
EXTENDS NbDriver, TLAPS

-----------------------------------------------------------------------------
(* The ladders                                                             *)

\* The handles that the first k calls of an open acquire, and the elements of
\* a sequence of releases.
Acquired(open, k) == {open[c].gets : c \in 1 .. k} \cap Handles
Listed(s) == {s[r] : r \in 1 .. Len(s)}

\* Every sequence of releases in the code, and what is left of it on the way.
Ladders ==
  {<<>>, <<"memory">>, <<"env">>, <<"db", "env">>, <<"options", "memory">>,
   <<"instance", "options", "memory">>, <<"instance", "memory">>,
   <<"env", "memory">>, <<"db", "env", "memory">>}

LEMMA ListedElements ==
  /\ Listed(<<>>) = {}
  /\ Listed(<<"memory">>) = {"memory"}
  /\ Listed(<<"env">>) = {"env"}
  /\ Listed(<<"db", "env">>) = {"db", "env"}
  /\ Listed(<<"options", "memory">>) = {"options", "memory"}
  /\ Listed(<<"instance", "options", "memory">>) = {"instance", "options", "memory"}
  /\ Listed(<<"instance", "memory">>) = {"instance", "memory"}
  /\ Listed(<<"env", "memory">>) = {"env", "memory"}
  /\ Listed(<<"db", "env", "memory">>) = {"db", "env", "memory"}
  BY DEF Listed

LEMMA TailsOfLadders ==
  /\ Tail(<<"memory">>) = <<>>
  /\ Tail(<<"env">>) = <<>>
  /\ Tail(<<"db", "env">>) = <<"env">>
  /\ Tail(<<"options", "memory">>) = <<"memory">>
  /\ Tail(<<"instance", "options", "memory">>) = <<"options", "memory">>
  /\ Tail(<<"instance", "memory">>) = <<"memory">>
  /\ Tail(<<"env", "memory">>) = <<"memory">>
  /\ Tail(<<"db", "env", "memory">>) = <<"env", "memory">>
  OBVIOUS

(* One release: the rest is a ladder again, it has no second handle of a   *)
(* database, and no database after its environment.                        *)
ReleasesOne(s) ==
  /\ Tail(s) \in Ladders
  /\ Listed(s) = {Head(s)} \cup Listed(Tail(s))
  /\ Head(s) \notin Listed(Tail(s))
  /\ Head(s) \in DbHandles => Listed(Tail(s)) \cap DbHandles = {}
  /\ Head(s) = "env" => "db" \notin Listed(s)
  /\ Head(s) \in Resources

LEMMA ReleaseOne == ASSUME NEW s \in Ladders, s # <<>>  PROVE ReleasesOne(s)
<1>1. CASE s = <<"memory">>
  <2>1. Head(s) = "memory"
    BY <1>1
  <2>. QED  BY <1>1, <2>1, ListedElements, TailsOfLadders
    DEF ReleasesOne, Ladders, DbHandles, Handles, Resources
<1>2. CASE s = <<"env">>
  <2>1. Head(s) = "env"
    BY <1>2
  <2>. QED  BY <1>2, <2>1, ListedElements, TailsOfLadders
    DEF ReleasesOne, Ladders, DbHandles, Handles, Resources
<1>3. CASE s = <<"db", "env">>
  <2>1. Head(s) = "db"
    BY <1>3
  <2>. QED  BY <1>3, <2>1, ListedElements, TailsOfLadders
    DEF ReleasesOne, Ladders, DbHandles, Handles, Resources
<1>4. CASE s = <<"options", "memory">>
  <2>1. Head(s) = "options"
    BY <1>4
  <2>. QED  BY <1>4, <2>1, ListedElements, TailsOfLadders
    DEF ReleasesOne, Ladders, DbHandles, Handles, Resources
<1>5. CASE s = <<"instance", "options", "memory">>
  <2>1. Head(s) = "instance"
    BY <1>5
  <2>. QED  BY <1>5, <2>1, ListedElements, TailsOfLadders
    DEF ReleasesOne, Ladders, DbHandles, Handles, Resources
<1>6. CASE s = <<"instance", "memory">>
  <2>1. Head(s) = "instance"
    BY <1>6
  <2>. QED  BY <1>6, <2>1, ListedElements, TailsOfLadders
    DEF ReleasesOne, Ladders, DbHandles, Handles, Resources
<1>7. CASE s = <<"env", "memory">>
  <2>1. Head(s) = "env"
    BY <1>7
  <2>. QED  BY <1>7, <2>1, ListedElements, TailsOfLadders
    DEF ReleasesOne, Ladders, DbHandles, Handles, Resources
<1>8. CASE s = <<"db", "env", "memory">>
  <2>1. Head(s) = "db"
    BY <1>8
  <2>. QED  BY <1>8, <2>1, ListedElements, TailsOfLadders
    DEF ReleasesOne, Ladders, DbHandles, Handles, Resources
<1>. QED  BY <1>1, <1>2, <1>3, <1>4, <1>5, <1>6, <1>7, <1>8 DEF Ladders

\* What the proofs need to know of the code of a driver: a call that fails
\* releases every handle that the calls before it acquired, the environment is
\* acquired before the database, and a close releases what the open acquired.
CallOrdered(open, c) ==
  /\ open[c].undo \in Ladders
  /\ open[c].gets \in Handles \cup {"memory", "options", "none"}
  /\ open[c].fails => Acquired(open, c - 1) \subseteq Listed(open[c].undo)
  /\ open[c].gets = "db" => "env" \in Acquired(open, c - 1)

WellOrdered(open, close) ==
  /\ Len(open) \in Nat \ {0}
  /\ \A c \in 1 .. Len(open) : CallOrdered(open, c)
  /\ Acquired(open, Len(open)) \cap DbHandles # {}
  /\ Acquired(open, Len(open)) = Listed(close) \cap Handles
  /\ close \in Ladders

LEMMA AcquiredMore ==
  ASSUME NEW open, NEW k \in Nat, NEW n, n = k + 1
  PROVE  Acquired(open, n) = Acquired(open, k) \cup ({open[n].gets} \cap Handles)
<1>1. 1 .. n = (1 .. k) \cup {n}
  OBVIOUS
<1>. QED  BY <1>1 DEF Acquired

LEMMA AcquiredNothing == ASSUME NEW open PROVE Acquired(open, 0) = {}
  BY DEF Acquired

LEMMA LeveldbOrdered == WellOrdered(Leveldb.open, Leveldb.close)
<1>. DEFINE open == Leveldb.open
            close == Leveldb.close
            c1 == Call("memory", TRUE, <<>>)
            c2 == Call("options", FALSE, <<>>)
            c3 == Call("instance", TRUE, <<"memory">>)
<1>1. open = <<c1, c2, c3>>
  BY DEF Leveldb, Driver
<1>2. close = <<"instance", "options", "memory">>
  BY DEF Leveldb, Driver
<1>. HIDE DEF open, close, c1, c2, c3
<1>3. /\ Len(open) = 3
      /\ open[1] = c1 /\ open[2] = c2 /\ open[3] = c3
  BY <1>1
<1>4. Acquired(open, 0) = {}
  BY AcquiredNothing
<1>5. CallOrdered(open, 1) /\ Acquired(open, 1) = {}
  <2>1. open[1].gets = "memory" /\ open[1].undo = <<>>
    BY <1>3 DEF c1, Call
  <2>2. CallOrdered(open, 1)
    BY <1>4, <2>1, ListedElements DEF CallOrdered, Ladders, Handles, DbHandles
  <2>3. Acquired(open, 1) = Acquired(open, 0) \cup ({"memory"} \cap Handles)
    BY <2>1, AcquiredMore, 1 = 0 + 1
  <2>. QED  BY <1>4, <2>2, <2>3 DEF Handles, DbHandles
<1>6. CallOrdered(open, 2) /\ Acquired(open, 2) = {}
  <2>1. open[2].gets = "options" /\ open[2].undo = <<>>
    BY <1>3 DEF c2, Call
  <2>2. CallOrdered(open, 2)
    BY <1>5, <2>1, ListedElements DEF CallOrdered, Ladders, Handles, DbHandles
  <2>3. Acquired(open, 2) = Acquired(open, 1) \cup ({"options"} \cap Handles)
    BY <2>1, AcquiredMore, 2 = 1 + 1
  <2>. QED  BY <1>5, <2>2, <2>3 DEF Handles, DbHandles
<1>7. CallOrdered(open, 3) /\ Acquired(open, 3) = {"instance"}
  <2>1. open[3].gets = "instance" /\ open[3].undo = <<"memory">>
    BY <1>3 DEF c3, Call
  <2>2. CallOrdered(open, 3)
    BY <1>6, <2>1, ListedElements DEF CallOrdered, Ladders, Handles, DbHandles
  <2>3. Acquired(open, 3) = Acquired(open, 2) \cup ({"instance"} \cap Handles)
    BY <2>1, AcquiredMore, 3 = 2 + 1
  <2>. QED  BY <1>6, <2>2, <2>3 DEF Handles, DbHandles
<1>8. ASSUME NEW c \in 1 .. Len(open)  PROVE CallOrdered(open, c)
  <2>. c \in {1, 2, 3}
    BY <1>3
  <2>. QED  BY <1>5, <1>6, <1>7
<1>9. close \in Ladders /\ Listed(close) = {"instance", "options", "memory"}
  BY <1>2, ListedElements DEF Ladders
<1>10. /\ Acquired(open, Len(open)) \cap DbHandles # {}
      /\ Acquired(open, Len(open)) = Listed(close) \cap Handles
  BY <1>3, <1>7, <1>9 DEF Handles, DbHandles
<1>11. Len(open) \in Nat \ {0}
  BY <1>3
<1>. QED  BY <1>8, <1>9, <1>10, <1>11 DEF WellOrdered, open, close

LEMMA CascadedbOrdered == WellOrdered(Cascadedb.open, Cascadedb.close)
<1>. DEFINE open == Cascadedb.open
            close == Cascadedb.close
            c1 == Call("memory", TRUE, <<>>)
            c2 == Call("instance", TRUE, <<"memory">>)
<1>1. open = <<c1, c2>>
  BY DEF Cascadedb, Driver
<1>2. close = <<"instance", "memory">>
  BY DEF Cascadedb, Driver
<1>. HIDE DEF open, close, c1, c2
<1>3. /\ Len(open) = 2
      /\ open[1] = c1 /\ open[2] = c2
  BY <1>1
<1>4. Acquired(open, 0) = {}
  BY AcquiredNothing
<1>5. CallOrdered(open, 1) /\ Acquired(open, 1) = {}
  <2>1. open[1].gets = "memory" /\ open[1].undo = <<>>
    BY <1>3 DEF c1, Call
  <2>2. CallOrdered(open, 1)
    BY <1>4, <2>1, ListedElements DEF CallOrdered, Ladders, Handles, DbHandles
  <2>3. Acquired(open, 1) = Acquired(open, 0) \cup ({"memory"} \cap Handles)
    BY <2>1, AcquiredMore, 1 = 0 + 1
  <2>. QED  BY <1>4, <2>2, <2>3 DEF Handles, DbHandles
<1>6. CallOrdered(open, 2) /\ Acquired(open, 2) = {"instance"}
  <2>1. open[2].gets = "instance" /\ open[2].undo = <<"memory">>
    BY <1>3 DEF c2, Call
  <2>2. CallOrdered(open, 2)
    BY <1>5, <2>1, ListedElements DEF CallOrdered, Ladders, Handles, DbHandles
  <2>3. Acquired(open, 2) = Acquired(open, 1) \cup ({"instance"} \cap Handles)
    BY <2>1, AcquiredMore, 2 = 1 + 1
  <2>. QED  BY <1>5, <2>2, <2>3 DEF Handles, DbHandles
<1>7. ASSUME NEW c \in 1 .. Len(open)  PROVE CallOrdered(open, c)
  <2>. c \in {1, 2}
    BY <1>3
  <2>. QED  BY <1>5, <1>6
<1>8. close \in Ladders /\ Listed(close) = {"instance", "memory"}
  BY <1>2, ListedElements DEF Ladders
<1>9. /\ Acquired(open, Len(open)) \cap DbHandles # {}
      /\ Acquired(open, Len(open)) = Listed(close) \cap Handles
  BY <1>3, <1>6, <1>8 DEF Handles, DbHandles
<1>10. Len(open) \in Nat \ {0}
  BY <1>3
<1>. QED  BY <1>7, <1>8, <1>9, <1>10 DEF WellOrdered, open, close

LEMMA KyotocabinetOrdered == WellOrdered(Kyotocabinet.open, Kyotocabinet.close)
<1>. DEFINE open == Kyotocabinet.open
            close == Kyotocabinet.close
            c1 == Call("memory", FALSE, <<>>)
            c2 == Call("none", TRUE, <<>>)
            c3 == Call("instance", TRUE, <<"memory">>)
<1>1. open = <<c1, c2, c3>>
  BY DEF Kyotocabinet, Driver, OpenTree
<1>2. close = <<"instance", "memory">>
  BY DEF Kyotocabinet, Driver
<1>. HIDE DEF open, close, c1, c2, c3
<1>3. /\ Len(open) = 3
      /\ open[1] = c1 /\ open[2] = c2 /\ open[3] = c3
  BY <1>1
<1>4. Acquired(open, 0) = {}
  BY AcquiredNothing
<1>5. CallOrdered(open, 1) /\ Acquired(open, 1) = {}
  <2>1. open[1].gets = "memory" /\ open[1].undo = <<>>
    BY <1>3 DEF c1, Call
  <2>2. CallOrdered(open, 1)
    BY <1>4, <2>1, ListedElements DEF CallOrdered, Ladders, Handles, DbHandles
  <2>3. Acquired(open, 1) = Acquired(open, 0) \cup ({"memory"} \cap Handles)
    BY <2>1, AcquiredMore, 1 = 0 + 1
  <2>. QED  BY <1>4, <2>2, <2>3 DEF Handles, DbHandles
<1>6. CallOrdered(open, 2) /\ Acquired(open, 2) = {}
  <2>1. open[2].gets = "none" /\ open[2].undo = <<>>
    BY <1>3 DEF c2, Call
  <2>2. CallOrdered(open, 2)
    BY <1>5, <2>1, ListedElements DEF CallOrdered, Ladders, Handles, DbHandles
  <2>3. Acquired(open, 2) = Acquired(open, 1) \cup ({"none"} \cap Handles)
    BY <2>1, AcquiredMore, 2 = 1 + 1
  <2>. QED  BY <1>5, <2>2, <2>3 DEF Handles, DbHandles
<1>7. CallOrdered(open, 3) /\ Acquired(open, 3) = {"instance"}
  <2>1. open[3].gets = "instance" /\ open[3].undo = <<"memory">>
    BY <1>3 DEF c3, Call
  <2>2. CallOrdered(open, 3)
    BY <1>6, <2>1, ListedElements DEF CallOrdered, Ladders, Handles, DbHandles
  <2>3. Acquired(open, 3) = Acquired(open, 2) \cup ({"instance"} \cap Handles)
    BY <2>1, AcquiredMore, 3 = 2 + 1
  <2>. QED  BY <1>6, <2>2, <2>3 DEF Handles, DbHandles
<1>8. ASSUME NEW c \in 1 .. Len(open)  PROVE CallOrdered(open, c)
  <2>. c \in {1, 2, 3}
    BY <1>3
  <2>. QED  BY <1>5, <1>6, <1>7
<1>9. close \in Ladders /\ Listed(close) = {"instance", "memory"}
  BY <1>2, ListedElements DEF Ladders
<1>10. /\ Acquired(open, Len(open)) \cap DbHandles # {}
      /\ Acquired(open, Len(open)) = Listed(close) \cap Handles
  BY <1>3, <1>7, <1>9 DEF Handles, DbHandles
<1>11. Len(open) \in Nat \ {0}
  BY <1>3
<1>. QED  BY <1>8, <1>9, <1>10, <1>11 DEF WellOrdered, open, close

LEMMA BerkeleydbOrdered == WellOrdered(Berkeleydb.open, Berkeleydb.close)
<1>. DEFINE open == Berkeleydb.open
            close == Berkeleydb.close
            c1 == Call("memory", TRUE, <<>>)
            c2 == Call("none", TRUE, <<>>)
            c3 == Call("env", TRUE, <<>>)
            c4 == Call("none", TRUE, <<"env">>)
            c5 == Call("none", TRUE, <<"env">>)
            c6 == Call("none", TRUE, <<"env">>)
            c7 == Call("db", TRUE, <<"env">>)
            c8 == Call("none", TRUE, <<"db", "env">>)
<1>1. open = <<c1, c2, c3, c4>> \o <<c5, c6, c7, c8>>
  BY DEF Berkeleydb, Driver, OpenEnv
<1>2. close = <<"db", "env", "memory">>
  BY DEF Berkeleydb, Driver
<1>. HIDE DEF open, close, c1, c2, c3, c4, c5, c6, c7, c8
<1>3. /\ Len(open) = 8
      /\ open[1] = c1 /\ open[2] = c2 /\ open[3] = c3 /\ open[4] = c4 /\ open[5] = c5 /\ open[6] = c6 /\ open[7] = c7 /\ open[8] = c8
  BY <1>1
<1>4. Acquired(open, 0) = {}
  BY AcquiredNothing
<1>5. CallOrdered(open, 1) /\ Acquired(open, 1) = {}
  <2>1. open[1].gets = "memory" /\ open[1].undo = <<>>
    BY <1>3 DEF c1, Call
  <2>2. CallOrdered(open, 1)
    BY <1>4, <2>1, ListedElements DEF CallOrdered, Ladders, Handles, DbHandles
  <2>3. Acquired(open, 1) = Acquired(open, 0) \cup ({"memory"} \cap Handles)
    BY <2>1, AcquiredMore, 1 = 0 + 1
  <2>. QED  BY <1>4, <2>2, <2>3 DEF Handles, DbHandles
<1>6. CallOrdered(open, 2) /\ Acquired(open, 2) = {}
  <2>1. open[2].gets = "none" /\ open[2].undo = <<>>
    BY <1>3 DEF c2, Call
  <2>2. CallOrdered(open, 2)
    BY <1>5, <2>1, ListedElements DEF CallOrdered, Ladders, Handles, DbHandles
  <2>3. Acquired(open, 2) = Acquired(open, 1) \cup ({"none"} \cap Handles)
    BY <2>1, AcquiredMore, 2 = 1 + 1
  <2>. QED  BY <1>5, <2>2, <2>3 DEF Handles, DbHandles
<1>7. CallOrdered(open, 3) /\ Acquired(open, 3) = {"env"}
  <2>1. open[3].gets = "env" /\ open[3].undo = <<>>
    BY <1>3 DEF c3, Call
  <2>2. CallOrdered(open, 3)
    BY <1>6, <2>1, ListedElements DEF CallOrdered, Ladders, Handles, DbHandles
  <2>3. Acquired(open, 3) = Acquired(open, 2) \cup ({"env"} \cap Handles)
    BY <2>1, AcquiredMore, 3 = 2 + 1
  <2>. QED  BY <1>6, <2>2, <2>3 DEF Handles, DbHandles
<1>8. CallOrdered(open, 4) /\ Acquired(open, 4) = {"env"}
  <2>1. open[4].gets = "none" /\ open[4].undo = <<"env">>
    BY <1>3 DEF c4, Call
  <2>2. CallOrdered(open, 4)
    BY <1>7, <2>1, ListedElements DEF CallOrdered, Ladders, Handles, DbHandles
  <2>3. Acquired(open, 4) = Acquired(open, 3) \cup ({"none"} \cap Handles)
    BY <2>1, AcquiredMore, 4 = 3 + 1
  <2>. QED  BY <1>7, <2>2, <2>3 DEF Handles, DbHandles
<1>9. CallOrdered(open, 5) /\ Acquired(open, 5) = {"env"}
  <2>1. open[5].gets = "none" /\ open[5].undo = <<"env">>
    BY <1>3 DEF c5, Call
  <2>2. CallOrdered(open, 5)
    BY <1>8, <2>1, ListedElements DEF CallOrdered, Ladders, Handles, DbHandles
  <2>3. Acquired(open, 5) = Acquired(open, 4) \cup ({"none"} \cap Handles)
    BY <2>1, AcquiredMore, 5 = 4 + 1
  <2>. QED  BY <1>8, <2>2, <2>3 DEF Handles, DbHandles
<1>10. CallOrdered(open, 6) /\ Acquired(open, 6) = {"env"}
  <2>1. open[6].gets = "none" /\ open[6].undo = <<"env">>
    BY <1>3 DEF c6, Call
  <2>2. CallOrdered(open, 6)
    BY <1>9, <2>1, ListedElements DEF CallOrdered, Ladders, Handles, DbHandles
  <2>3. Acquired(open, 6) = Acquired(open, 5) \cup ({"none"} \cap Handles)
    BY <2>1, AcquiredMore, 6 = 5 + 1
  <2>. QED  BY <1>9, <2>2, <2>3 DEF Handles, DbHandles
<1>11. CallOrdered(open, 7) /\ Acquired(open, 7) = {"env", "db"}
  <2>1. open[7].gets = "db" /\ open[7].undo = <<"env">>
    BY <1>3 DEF c7, Call
  <2>2. CallOrdered(open, 7)
    BY <1>10, <2>1, ListedElements DEF CallOrdered, Ladders, Handles, DbHandles
  <2>3. Acquired(open, 7) = Acquired(open, 6) \cup ({"db"} \cap Handles)
    BY <2>1, AcquiredMore, 7 = 6 + 1
  <2>. QED  BY <1>10, <2>2, <2>3 DEF Handles, DbHandles
<1>12. CallOrdered(open, 8) /\ Acquired(open, 8) = {"env", "db"}
  <2>1. open[8].gets = "none" /\ open[8].undo = <<"db", "env">>
    BY <1>3 DEF c8, Call
  <2>2. CallOrdered(open, 8)
    BY <1>11, <2>1, ListedElements DEF CallOrdered, Ladders, Handles, DbHandles
  <2>3. Acquired(open, 8) = Acquired(open, 7) \cup ({"none"} \cap Handles)
    BY <2>1, AcquiredMore, 8 = 7 + 1
  <2>. QED  BY <1>11, <2>2, <2>3 DEF Handles, DbHandles
<1>13. ASSUME NEW c \in 1 .. Len(open)  PROVE CallOrdered(open, c)
  <2>. c \in {1, 2, 3, 4, 5, 6, 7, 8}
    BY <1>3
  <2>. QED  BY <1>5, <1>6, <1>7, <1>8, <1>9, <1>10, <1>11, <1>12
<1>14. close \in Ladders /\ Listed(close) = {"db", "env", "memory"}
  BY <1>2, ListedElements DEF Ladders
<1>15. /\ Acquired(open, Len(open)) \cap DbHandles # {}
      /\ Acquired(open, Len(open)) = Listed(close) \cap Handles
  BY <1>3, <1>12, <1>14 DEF Handles, DbHandles
<1>16. Len(open) \in Nat \ {0}
  BY <1>3
<1>. QED  BY <1>13, <1>14, <1>15, <1>16 DEF WellOrdered, open, close

LEMMA TokukvOrdered == WellOrdered(Tokukv.open, Tokukv.close)
<1>. DEFINE open == Tokukv.open
            close == Tokukv.close
            c1 == Call("memory", TRUE, <<>>)
            c2 == Call("none", TRUE, <<>>)
            c3 == Call("env", TRUE, <<>>)
            c4 == Call("none", TRUE, <<"env">>)
            c5 == Call("none", TRUE, <<"env">>)
            c6 == Call("db", TRUE, <<"env">>)
            c7 == Call("none", TRUE, <<"db", "env">>)
            c8 == Call("none", TRUE, <<"db", "env">>)
            c9 == Call("none", TRUE, <<"db", "env">>)
<1>1. open = <<c1, c2, c3, c4>> \o <<c5, c6, c7, c8, c9>>
  BY DEF Tokukv, Driver, OpenEnv
<1>2. close = <<"db", "env", "memory">>
  BY DEF Tokukv, Driver
<1>. HIDE DEF open, close, c1, c2, c3, c4, c5, c6, c7, c8, c9
<1>3. /\ Len(open) = 9
      /\ open[1] = c1 /\ open[2] = c2 /\ open[3] = c3 /\ open[4] = c4 /\ open[5] = c5 /\ open[6] = c6 /\ open[7] = c7 /\ open[8] = c8 /\ open[9] = c9
  BY <1>1
<1>4. Acquired(open, 0) = {}
  BY AcquiredNothing
<1>5. CallOrdered(open, 1) /\ Acquired(open, 1) = {}
  <2>1. open[1].gets = "memory" /\ open[1].undo = <<>>
    BY <1>3 DEF c1, Call
  <2>2. CallOrdered(open, 1)
    BY <1>4, <2>1, ListedElements DEF CallOrdered, Ladders, Handles, DbHandles
  <2>3. Acquired(open, 1) = Acquired(open, 0) \cup ({"memory"} \cap Handles)
    BY <2>1, AcquiredMore, 1 = 0 + 1
  <2>. QED  BY <1>4, <2>2, <2>3 DEF Handles, DbHandles
<1>6. CallOrdered(open, 2) /\ Acquired(open, 2) = {}
  <2>1. open[2].gets = "none" /\ open[2].undo = <<>>
    BY <1>3 DEF c2, Call
  <2>2. CallOrdered(open, 2)
    BY <1>5, <2>1, ListedElements DEF CallOrdered, Ladders, Handles, DbHandles
  <2>3. Acquired(open, 2) = Acquired(open, 1) \cup ({"none"} \cap Handles)
    BY <2>1, AcquiredMore, 2 = 1 + 1
  <2>. QED  BY <1>5, <2>2, <2>3 DEF Handles, DbHandles
<1>7. CallOrdered(open, 3) /\ Acquired(open, 3) = {"env"}
  <2>1. open[3].gets = "env" /\ open[3].undo = <<>>
    BY <1>3 DEF c3, Call
  <2>2. CallOrdered(open, 3)
    BY <1>6, <2>1, ListedElements DEF CallOrdered, Ladders, Handles, DbHandles
  <2>3. Acquired(open, 3) = Acquired(open, 2) \cup ({"env"} \cap Handles)
    BY <2>1, AcquiredMore, 3 = 2 + 1
  <2>. QED  BY <1>6, <2>2, <2>3 DEF Handles, DbHandles
<1>8. CallOrdered(open, 4) /\ Acquired(open, 4) = {"env"}
  <2>1. open[4].gets = "none" /\ open[4].undo = <<"env">>
    BY <1>3 DEF c4, Call
  <2>2. CallOrdered(open, 4)
    BY <1>7, <2>1, ListedElements DEF CallOrdered, Ladders, Handles, DbHandles
  <2>3. Acquired(open, 4) = Acquired(open, 3) \cup ({"none"} \cap Handles)
    BY <2>1, AcquiredMore, 4 = 3 + 1
  <2>. QED  BY <1>7, <2>2, <2>3 DEF Handles, DbHandles
<1>9. CallOrdered(open, 5) /\ Acquired(open, 5) = {"env"}
  <2>1. open[5].gets = "none" /\ open[5].undo = <<"env">>
    BY <1>3 DEF c5, Call
  <2>2. CallOrdered(open, 5)
    BY <1>8, <2>1, ListedElements DEF CallOrdered, Ladders, Handles, DbHandles
  <2>3. Acquired(open, 5) = Acquired(open, 4) \cup ({"none"} \cap Handles)
    BY <2>1, AcquiredMore, 5 = 4 + 1
  <2>. QED  BY <1>8, <2>2, <2>3 DEF Handles, DbHandles
<1>10. CallOrdered(open, 6) /\ Acquired(open, 6) = {"env", "db"}
  <2>1. open[6].gets = "db" /\ open[6].undo = <<"env">>
    BY <1>3 DEF c6, Call
  <2>2. CallOrdered(open, 6)
    BY <1>9, <2>1, ListedElements DEF CallOrdered, Ladders, Handles, DbHandles
  <2>3. Acquired(open, 6) = Acquired(open, 5) \cup ({"db"} \cap Handles)
    BY <2>1, AcquiredMore, 6 = 5 + 1
  <2>. QED  BY <1>9, <2>2, <2>3 DEF Handles, DbHandles
<1>11. CallOrdered(open, 7) /\ Acquired(open, 7) = {"env", "db"}
  <2>1. open[7].gets = "none" /\ open[7].undo = <<"db", "env">>
    BY <1>3 DEF c7, Call
  <2>2. CallOrdered(open, 7)
    BY <1>10, <2>1, ListedElements DEF CallOrdered, Ladders, Handles, DbHandles
  <2>3. Acquired(open, 7) = Acquired(open, 6) \cup ({"none"} \cap Handles)
    BY <2>1, AcquiredMore, 7 = 6 + 1
  <2>. QED  BY <1>10, <2>2, <2>3 DEF Handles, DbHandles
<1>12. CallOrdered(open, 8) /\ Acquired(open, 8) = {"env", "db"}
  <2>1. open[8].gets = "none" /\ open[8].undo = <<"db", "env">>
    BY <1>3 DEF c8, Call
  <2>2. CallOrdered(open, 8)
    BY <1>11, <2>1, ListedElements DEF CallOrdered, Ladders, Handles, DbHandles
  <2>3. Acquired(open, 8) = Acquired(open, 7) \cup ({"none"} \cap Handles)
    BY <2>1, AcquiredMore, 8 = 7 + 1
  <2>. QED  BY <1>11, <2>2, <2>3 DEF Handles, DbHandles
<1>13. CallOrdered(open, 9) /\ Acquired(open, 9) = {"env", "db"}
  <2>1. open[9].gets = "none" /\ open[9].undo = <<"db", "env">>
    BY <1>3 DEF c9, Call
  <2>2. CallOrdered(open, 9)
    BY <1>12, <2>1, ListedElements DEF CallOrdered, Ladders, Handles, DbHandles
  <2>3. Acquired(open, 9) = Acquired(open, 8) \cup ({"none"} \cap Handles)
    BY <2>1, AcquiredMore, 9 = 8 + 1
  <2>. QED  BY <1>12, <2>2, <2>3 DEF Handles, DbHandles
<1>14. ASSUME NEW c \in 1 .. Len(open)  PROVE CallOrdered(open, c)
  <2>. c \in {1, 2, 3, 4, 5, 6, 7, 8, 9}
    BY <1>3
  <2>. QED  BY <1>5, <1>6, <1>7, <1>8, <1>9, <1>10, <1>11, <1>12, <1>13
<1>15. close \in Ladders /\ Listed(close) = {"db", "env", "memory"}
  BY <1>2, ListedElements DEF Ladders
<1>16. /\ Acquired(open, Len(open)) \cap DbHandles # {}
      /\ Acquired(open, Len(open)) = Listed(close) \cap Handles
  BY <1>3, <1>13, <1>15 DEF Handles, DbHandles
<1>17. Len(open) \in Nat \ {0}
  BY <1>3
<1>. QED  BY <1>14, <1>15, <1>16, <1>17 DEF WellOrdered, open, close

LEMMA DriversOrdered ==
  ASSUME NEW d \in DriverNames
  PROVE  WellOrdered(DbIf[d].open, DbIf[d].close)
<1>1. DriverNames = {"leveldb", "cascadedb", "nessdb", "kyotocabinet", "berkeleydb", "tokukv"}
  BY DEF DriverNames, DbIf
<1>2. CASE d = "leveldb"
  BY <1>2, LeveldbOrdered DEF DbIf
<1>3. CASE d = "cascadedb"
  BY <1>3, CascadedbOrdered DEF DbIf
<1>4. CASE d = "nessdb"
  BY <1>4, CascadedbOrdered DEF DbIf, Cascadedb, Nessdb, Driver
<1>5. CASE d = "kyotocabinet"
  BY <1>5, KyotocabinetOrdered DEF DbIf
<1>6. CASE d = "berkeleydb"
  BY <1>6, BerkeleydbOrdered DEF DbIf
<1>7. CASE d = "tokukv"
  BY <1>7, TokukvOrdered DEF DbIf
<1>. QED  BY <1>1, <1>2, <1>3, <1>4, <1>5, <1>6, <1>7

-----------------------------------------------------------------------------
(* The invariant of the drivers                                            *)

Operations == {"replace", "select", "fetch", "remove"}

\* What an open acquires in all, and the handles held.
OpenHandles == Acquired(DbIf[driver].open, Len(DbIf[driver].open))
Held == res \cap Handles

\* While an open runs, exactly the handles of the calls made so far are held.
OpenPart == step < Len(DbIf[driver].open) /\ Held = Acquired(DbIf[driver].open, step)

\* A close has exactly the handles left that its list still names, and a
\* failed open no others.
ReleasePart ==
  /\ Held \subseteq Listed(todo)
  /\ IF driverRet = 0
     THEN step = Len(DbIf[driver].open) /\ Held = Listed(todo) \cap Handles
     ELSE step < Len(DbIf[driver].open)

\* Between two calls the database is open, or no handle is held.
IdlePart == IF DbOpen THEN Held = OpenHandles ELSE Held = {}

DriverInv ==
  /\ driver \in DriverNames
  /\ driverPc \in {"idle", "open", "release"} \cup Operations
  /\ step \in 0 .. Len(DbIf[driver].open)
  /\ todo \in Ladders
  /\ res \subseteq Resources
  /\ driverRet \in {0, -1}
  /\ "db" \in res => "env" \in res
  /\ driverPc = "open" => OpenPart
  /\ driverPc = "release" => ReleasePart
  /\ driverPc \in Operations => DbOpen /\ IdlePart
  /\ driverPc = "idle" => IdlePart

LEMMA DriverInvInit == ASSUME driver \in DriverNames, DriverInit  PROVE DriverInv
<1>1. WellOrdered(DbIf[driver].open, DbIf[driver].close)
  BY DriversOrdered
<1>. QED
  BY <1>1 DEF DriverInit, DriverInv, WellOrdered, Ladders, Operations, IdlePart, DbOpen,
    Held, Resources

\* An open begins with nothing held, and a close with everything.
LEMMA OpenBegins ==
  ASSUME DriverInv, DriverReturned, ~DbOpen, CallOpen
  PROVE  DriverInv' /\ ~DbOpen'
<1>1. WellOrdered(DbIf[driver].open, DbIf[driver].close)
  BY DriversOrdered DEF DriverInv
<1>2. Held = Acquired(DbIf[driver].open, 0)
  BY AcquiredNothing DEF DriverInv, DriverReturned, IdlePart
<1>3. OpenPart' /\ step' \in 0 .. Len(DbIf[driver].open) /\ ~DbOpen'
  BY <1>1, <1>2 DEF CallOpen, OpenPart, Held, WellOrdered, DbOpen
<1>. QED  BY <1>3 DEF CallOpen, DriverInv, Operations

LEMMA CloseBegins ==
  ASSUME DriverInv, DriverReturned, DbOpen, CallClose
  PROVE  DriverInv' /\ DbOpen'
<1>1. WellOrdered(DbIf[driver].open, DbIf[driver].close)
  BY DriversOrdered DEF DriverInv
<1>2. Held = OpenHandles /\ step = Len(DbIf[driver].open)
  BY DEF DriverInv, DriverReturned, IdlePart, DbOpen
<1>3. ReleasePart' /\ todo' \in Ladders /\ driverRet' = 0
  BY <1>1, <1>2 DEF CallClose, ReleasePart, Held, OpenHandles, WellOrdered
<1>4. DbOpen'
  BY DEF CallClose, DbOpen
<1>. QED  BY <1>3, <1>4 DEF CallClose, DriverInv, Operations

LEMMA OperationBegins ==
  ASSUME DriverInv, DriverReturned, DbOpen, NEW call \in Operations, NEW k,
         CallOn(call, k)
  PROVE  DriverInv' /\ DbOpen'
<1>1. DbOpen' /\ IdlePart'
  BY DEF CallOn, DriverInv, DriverReturned, DbOpen, IdlePart, Held, OpenHandles
<1>2. driverPc' \in Operations
  BY DEF CallOn
<1>. QED  BY <1>1, <1>2 DEF CallOn, DriverInv, Operations

(* One call of an open that succeeds: it was not open before, and when it   *)
(* is afterwards, the library holds what is in its files.                  *)
LEMMA OneMoreCall ==
  ASSUME DriverInv, CallSucceeds
  PROVE  /\ DriverInv' /\ ~DbOpen
         /\ DbOpen' => driverRet' = 0 /\ stored' = saved
         /\ driverPc' = "idle" => DbOpen' /\ driverRet' = 0
         /\ ~DbOpen' => stored' = stored
         /\ UNCHANGED <<driver, key, saved, acked, errs>>
<1>. DEFINE open == DbIf[driver].open
            n == step + 1
<1>1. WellOrdered(open, DbIf[driver].close)
  BY DriversOrdered DEF DriverInv
<1>2. /\ step \in Nat /\ n \in 1 .. Len(open) /\ step < Len(open)
      /\ Held = Acquired(open, step)
  BY <1>1 DEF CallSucceeds, DriverInv, OpenPart, WellOrdered
<1>3. CallOrdered(open, n) /\ Acquired(open, n) = Held \cup ({open[n].gets} \cap Handles)
  BY <1>1, <1>2, AcquiredMore DEF WellOrdered
<1>4. Acquired(open, Len(open)) \cap DbHandles # {} /\ Len(open) \in Nat
  BY <1>1 DEF WellOrdered
<1>5. /\ res' = IF open[n].gets = "none" THEN res ELSE res \cup {open[n].gets}
      /\ step' = n /\ driver' = driver /\ todo' = todo /\ driverPc = "open"
      /\ UNCHANGED <<key, saved, acked, errs>>
  BY DEF CallSucceeds
<1>6. IF n = Len(open)
      THEN driverPc' = "idle" /\ driverRet' = 0 /\ stored' = saved
      ELSE UNCHANGED <<driverPc, driverRet, stored>>
  BY <1>5 DEF CallSucceeds, Returns
<1>. HIDE DEF open, n
<1>7. Held' = Acquired(open, n) /\ res' \subseteq Resources
  BY <1>3, <1>5 DEF Held, CallOrdered, DriverInv, Handles, DbHandles, Resources
<1>8. "db" \in res' => "env" \in res'
  <2>1. CASE open[n].gets = "db"
    BY <1>2, <1>3, <1>5, <2>1, n - 1 = step DEF CallOrdered, Held, n
  <2>2. CASE open[n].gets # "db"
    BY <1>5, <2>2 DEF DriverInv
  <2>. QED  BY <2>1, <2>2
<1>9. ~DbOpen /\ open' = open
  BY <1>2, <1>5 DEF DbOpen, open
<1>10. CASE n = Len(open)
  <2>1. driverPc' = "idle" /\ driverRet' = 0 /\ stored' = saved
    BY <1>6, <1>10
  <2>2. DbOpen' /\ Held' = OpenHandles'
    BY <1>4, <1>5, <1>7, <1>10, DbHandles \subseteq Handles
      DEF DbOpen, OpenHandles, open, Held, Handles
  <2>3. DriverInv'
    BY <1>2, <1>5, <1>7, <1>8, <2>1, <2>2 DEF DriverInv, IdlePart, open, Operations
  <2>. QED  BY <1>5, <1>9, <2>1, <2>2, <2>3
<1>11. CASE n # Len(open)
  <2>1. UNCHANGED <<driverPc, driverRet, stored>>
    BY <1>6, <1>11
  <2>2. OpenPart' /\ ~DbOpen'
    BY <1>2, <1>4, <1>5, <1>7, <1>9, <1>11 DEF OpenPart, DbOpen, open, n
  <2>3. DriverInv'
    BY <1>2, <1>5, <1>7, <1>8, <2>1, <2>2 DEF DriverInv, open, Operations
  <2>. QED  BY <1>5, <1>9, <2>1, <2>2, <2>3
<1>. QED  BY <1>10, <1>11

(* A call of an open that fails.                                           *)
LEMMA OneCallFails ==
  ASSUME DriverInv, CallFails
  PROVE  /\ DriverInv' /\ ~DbOpen /\ ~DbOpen' /\ driverRet' = -1
         /\ UNCHANGED <<driver, key, stored, saved, acked, errs>>
<1>. DEFINE open == DbIf[driver].open
            n == step + 1
<1>1. WellOrdered(open, DbIf[driver].close)
  BY DriversOrdered DEF DriverInv
<1>2. /\ step \in Nat /\ n \in 1 .. Len(open) /\ step < Len(open)
      /\ Held = Acquired(open, step)
  BY <1>1 DEF CallFails, DriverInv, OpenPart, WellOrdered
<1>3. CallOrdered(open, n) /\ n - 1 = step
  BY <1>1, <1>2 DEF WellOrdered
<1>4. /\ open[n].fails /\ todo' = open[n].undo
      /\ driverPc' = "release" /\ driverRet' = -1
      /\ UNCHANGED <<driver, step, res, key, stored, saved, acked, errs>>
  BY DEF CallFails
<1>. HIDE DEF open, n
<1>5. Held' \subseteq Listed(todo') /\ todo' \in Ladders
  BY <1>2, <1>3, <1>4 DEF CallOrdered, Held
<1>6. ~DbOpen /\ ~DbOpen' /\ ReleasePart'
  BY <1>2, <1>4, <1>5 DEF DbOpen, open, ReleasePart, Listed
<1>. QED  BY <1>4, <1>5, <1>6 DEF DriverInv, Operations

(* One release: it closes the open database and saves what it holds, or    *)
(* fails to, or it changes neither the keys nor whether it is open.        *)
ClosesDb ==
  /\ DbOpen /\ ~DbOpen' /\ stored' = {}
  /\ \/ saved' = stored /\ UNCHANGED errs
     \/ errs' = errs \cup {"close"} /\ UNCHANGED saved

KeepsDb == DbOpen' = DbOpen /\ UNCHANGED <<stored, saved, errs>>

LEMMA OneRelease ==
  ASSUME DriverInv, Release
  PROVE  /\ DriverInv'
         /\ ClosesDb \/ KeepsDb
         /\ UNCHANGED <<driver, driverPc, driverRet, key, acked>>
<1>. DEFINE open == DbIf[driver].open
            h == Head(todo)
            rest == Tail(todo)
<1>1. /\ driverPc = "release" /\ todo # <<>>
      /\ todo' = rest /\ res' = res \ {h}
      /\ UNCHANGED <<driver, driverPc, step, driverRet, key, acked>>
  BY DEF Release
<1>2. /\ rest \in Ladders /\ h \notin Listed(rest)
      /\ Listed(todo) = {h} \cup Listed(rest)
      /\ h \in DbHandles => Listed(rest) \cap DbHandles = {}
      /\ h = "env" => "db" \notin Listed(todo)
  BY <1>1, ReleaseOne DEF ReleasesOne, DriverInv
<1>3. \/ h \in DbHandles /\ driverRet = 0 /\ saved' = stored /\ UNCHANGED errs
      \/ h \in DbHandles /\ driverRet = 0 /\ errs' = errs \cup {"close"} /\ UNCHANGED saved
      \/ ~(h \in DbHandles /\ driverRet = 0) /\ UNCHANGED <<saved, errs>>
  BY DEF Release
<1>4. stored' = IF h \in DbHandles /\ driverRet = 0 THEN {} ELSE stored
  BY DEF Release
<1>. HIDE DEF open, h, rest
<1>5. Held' = Held \ {h}
  BY <1>1 DEF Held
<1>6. ReleasePart /\ ReleasePart'
  <2>1. ReleasePart
    BY <1>1 DEF DriverInv
  <2>2. Held' \subseteq Listed(todo')
    BY <1>1, <1>2, <1>5, <2>1 DEF ReleasePart
  <2>3. driverRet = 0 => Held' = Listed(todo') \cap Handles
    BY <1>1, <1>2, <1>5, <2>1 DEF ReleasePart
  <2>. QED  BY <1>1, <2>1, <2>2, <2>3 DEF ReleasePart
<1>7. "db" \in res' => "env" \in res'
  <2>1. h = "env" => "db" \notin res
    BY <1>2, <1>6 DEF ReleasePart, Held, Handles, DbHandles
  <2>. QED  BY <1>1, <2>1 DEF DriverInv
<1>8. DriverInv'
  BY <1>1, <1>2, <1>6, <1>7 DEF DriverInv, Operations
<1>9. CASE h \in DbHandles /\ driverRet = 0
  <2>1. h \in Held /\ step = Len(open) /\ Held = Listed(todo) \cap Handles
    BY <1>2, <1>6, <1>9 DEF ReleasePart, open, Handles
  <2>2. DbOpen
    BY <1>9, <2>1 DEF DbOpen, open, Held
  <2>3. Held' \cap DbHandles = {}
    BY <1>1, <1>2, <1>6, <1>9 DEF ReleasePart
  <2>4. ~DbOpen'
    BY <2>3, DbHandles \subseteq Handles DEF DbOpen, Held, Handles
  <2>. QED  BY <1>1, <1>3, <1>4, <1>8, <1>9, <2>2, <2>4 DEF ClosesDb
<1>10. CASE ~(h \in DbHandles /\ driverRet = 0)
  <2>1. DbOpen' = DbOpen
    <3>1. CASE h \in DbHandles
      <4>1. driverRet # 0 /\ step < Len(open) /\ step \in Int /\ Len(open) \in Int
        BY <1>6, <1>10, <3>1 DEF ReleasePart, open, DriverInv
      <4>. QED  BY <1>1, <4>1 DEF DbOpen, open
    <3>2. CASE h \notin DbHandles
      BY <1>1, <3>2 DEF DbOpen
    <3>. QED  BY <3>1, <3>2
  <2>. QED  BY <1>1, <1>3, <1>4, <1>8, <1>10, <2>1 DEF KeepsDb
<1>. QED  BY <1>9, <1>10

(* After the last release no handle is held.                               *)
LEMMA LastRelease ==
  ASSUME DriverInv, Released
  PROVE  /\ DriverInv' /\ ~DbOpen /\ ~DbOpen' /\ Held' = {}
         /\ UNCHANGED <<driver, driverRet, key, stored, saved, acked, errs>>
<1>1. Held = {}
  BY ListedElements DEF Released, DriverInv, ReleasePart
<1>2. res \cap DbHandles = {}
  BY <1>1 DEF Held, Handles
<1>3. ~DbOpen /\ ~DbOpen' /\ Held' = {}
  BY <1>1, <1>2 DEF Released, DbOpen, Held
<1>. QED  BY <1>3 DEF Released, DriverInv, IdlePart, Operations

(* What an operation does to the driver, besides the keys.                 *)
LEMMA OneOperation ==
  ASSUME DriverInv, NEW call \in Operations, NEW r, Operate(call, r)
  PROVE  /\ DriverInv' /\ DbOpen /\ DbOpen' /\ driverPc = call /\ driverPc' = "idle"
         /\ UNCHANGED <<driver, key, saved>>
<1>1. /\ driverPc = call /\ driverPc' = "idle"
      /\ driverRet' = Reports(driver, call, r)
      /\ res' = res \cup ValueLeft(call, r)
      /\ UNCHANGED <<driver, step, todo, key, saved>>
  BY DEF Operate, Returns
<1>2. DbOpen /\ IdlePart
  BY <1>1 DEF DriverInv
<1>3. ValueLeft(call, r) \subseteq {"value"}
  BY DEF ValueLeft
<1>4. Held' = Held /\ res' \cap DbHandles = res \cap DbHandles
  BY <1>1, <1>3 DEF Held, Handles, DbHandles
<1>5. DbOpen' /\ IdlePart'
  BY <1>1, <1>2, <1>4 DEF DbOpen, IdlePart, OpenHandles
<1>6. res' \subseteq Resources /\ driverRet' \in {0, -1}
  BY <1>1, <1>3 DEF Reports, Resources, DriverInv
<1>7. "db" \in res' => "env" \in res'
  BY <1>1, <1>3 DEF DriverInv
<1>. QED  BY <1>1, <1>2, <1>5, <1>6, <1>7 DEF DriverInv, Operations

(* Only kyotocabinet takes an empty value for a failure.                   *)
LEMMA DeniesEmpty ==
  ASSUME NEW d \in DriverNames, NEW call, NEW r
  PROVE  <<call, r>> \in DbIf[d].denies
           <=> d = "kyotocabinet" /\ call = "select" /\ r = "empty"
  BY DEF DriverNames, DbIf, Leveldb, Cascadedb, Nessdb, Kyotocabinet, Berkeleydb, Tokukv,
    Driver

LEMMA HidesEmpty ==
  ASSUME NEW d \in DriverNames, NEW call  PROVE <<call, "empty">> \notin DbIf[d].hides
  BY DEF DriverNames, DbIf, Leveldb, Cascadedb, Nessdb, Kyotocabinet, Berkeleydb, Tokukv,
    Driver, HidesErrors

(* What an operation does to a set of keys.                                *)
LEMMA AppliedFacts ==
  ASSUME NEW call \in Operations, NEW keys
  PROVE  /\ call = "replace" => Applied(call, keys) = keys \cup {key}
         /\ call \in {"select", "fetch"} => Applied(call, keys) = keys
         /\ call # "replace" /\ key \notin keys => Applied(call, keys) = keys
         /\ Applied(call, keys) \subseteq keys \cup {key}
<1>1. CASE call = "replace"
  BY <1>1 DEF Applied
<1>2. CASE call = "remove"
  BY <1>2 DEF Applied
<1>3. CASE call \in {"select", "fetch"}
  BY <1>3 DEF Applied
<1>. QED  BY <1>1, <1>2, <1>3 DEF Operations

LEMMA FlushKeeps ==
  ASSUME DriverInv, Flush
  PROVE  /\ DriverInv' /\ DbOpen /\ DbOpen'
         /\ UNCHANGED <<driver, driverPc, res, driverRet, key, stored, acked, errs>>
  BY DEF Flush, DriverInv, DbOpen, OpenPart, ReleasePart, IdlePart, Held, OpenHandles

LEMMA UnchangedKeeps ==
  ASSUME DriverInv, UNCHANGED <<driver, driverPc, step, todo, driverRet>>,
         res' \cap Handles = res \cap Handles, res' \subseteq Resources
  PROVE  DriverInv' /\ DbOpen' = DbOpen
<1>1. Held' = Held /\ res' \cap DbHandles = res \cap DbHandles
  BY DEF Held, Handles
<1>2. DbOpen' = DbOpen
  BY <1>1 DEF DbOpen
<1>3. "db" \in res' => "env" \in res'
  BY DEF DriverInv, Handles, DbHandles
<1>. QED
  BY <1>1, <1>2, <1>3 DEF DriverInv, OpenPart, ReleasePart, IdlePart, OpenHandles

LEMMA InOperation ==
  ASSUME driverPc \in Operations, DriverStep
  PROVE  \E r \in LibraryResults(driverPc) : Operate(driverPc, r)
<1>1. ~(CallSucceeds \/ CallFails \/ Release \/ Released)
  BY DEF CallSucceeds, CallFails, Release, Released, Operations
<1>2. ASSUME NEW call, NEW r \in LibraryResults(call), Operate(call, r)
      PROVE  r \in LibraryResults(driverPc) /\ Operate(driverPc, r)
  BY <1>2 DEF Operate
<1>. QED  BY <1>1, <1>2 DEF DriverStep, Replace, Select, Fetch, Remove

LEMMA LaddersTyped == ASSUME NEW s \in Ladders  PROVE s \in Seq(Resources)
<1>1. ASSUME NEW a \in Resources, NEW b \in Resources, NEW c \in Resources
      PROVE  <<a>> \in Seq(Resources) /\ <<a, b>> \in Seq(Resources)
               /\ <<a, b, c>> \in Seq(Resources) /\ <<>> \in Seq(Resources)
  OBVIOUS
<1>2. {"memory", "options", "env", "db", "instance"} \subseteq Resources
  BY DEF Resources, Handles, DbHandles
<1>. QED  BY <1>1, <1>2 DEF Ladders
=============================================================================
