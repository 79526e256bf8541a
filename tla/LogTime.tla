------------------------------- MODULE LogTime -------------------------------
(***************************************************************************)
(* The time that users spend: game/socket.js logs each session of the game *)
(* server when it ends, userModel.js keeps a row of Logtime for a user and *)
(* a day, and the profile page shows a chart of the week.                  *)
(*                                                                         *)
(* updateLogtimeOfToday reads whether there is a row and then inserts or   *)
(* updates; nobody waits for it, so that it may overlap with the next      *)
(* session's, and with midnight.  Minutes are not told from seconds.       *)
(***************************************************************************)
EXTENDS Presence, Integers, Sequences

CONSTANTS Week,         \* the days of a chart, 7
          Durations,    \* bound: the lengths of a session
          MaxSessions,  \* bound: sessions that end
          MaxDay        \* bound: the last day

ASSUME WeekAssumption == Week \in Nat \ {0} /\ MaxDay \in Nat /\ Durations \subseteq Nat

VARIABLES today,        \* the date, of Node and of SQLite
          rows,         \* Logtime: [user, created_at, day_name, hours_logged], by id
          writes,       \* calls of updateLogtimeOfToday: [user, time, day, at]
          spent,        \* history: the time of the sessions that ended on a day
          overlapped,   \* history: <<u, d>> when calls of u on day d overlapped
          nights        \* history: <<u, d>> when a call of u from about d saw midnight

logVars == <<today, rows, writes, spent, overlapped, nights>>

Days == 0..MaxDay
NameOf(day) == day % Week

LogTypeOK ==
    /\ PresenceTypeOK
    /\ today \in Days
    /\ rows \in Seq([user : Users, created_at : Days, day_name : 0..(Week - 1),
                     hours_logged : Nat])
    /\ writes \in Seq([user : Users, time : Durations, day : Days,
                       at : {"read", "insert", "update", "done"}])
    /\ spent \in [Users \X Days -> Nat]

LogInit ==
    /\ PresenceInit
    /\ today = 0 /\ rows = <<>> /\ writes = <<>>
    /\ spent = [k \in Users \X Days |-> 0]
    /\ overlapped = {} /\ nights = {}

Writing(u) == \E i \in DOMAIN writes : writes[i].user = u /\ writes[i].at # "done"

\* total_online_time of a session is handed to updateLogtimeOfToday, which
\* takes the date and starts to read.
LogSession(u) ==
    /\ Len(writes) < MaxSessions
    /\ \E time \in Durations :
          /\ writes' = Append(writes, [user |-> u, time |-> time, day |-> today, at |-> "read"])
          /\ spent' = [spent EXCEPT ![<<u, today>>] = @ + time]
    /\ overlapped' = IF Writing(u) THEN overlapped \cup {<<u, today>>} ELSE overlapped
    /\ UNCHANGED <<today, rows, nights>>

RowsOf(u, day) == {i \in DOMAIN rows : rows[i].user = u /\ rows[i].created_at = day}

\* getLogtimeOfToday.
Read(i) ==
    /\ writes[i].at = "read"
    /\ writes' = [writes EXCEPT ![i].at =
                    IF RowsOf(writes[i].user, writes[i].day) = {} THEN "insert" ELSE "update"]
    /\ UNCHANGED <<today, rows, spent, overlapped, nights>>

Finished(i) == writes' = [writes EXCEPT ![i].at = "done"]

Update(i) ==
    /\ writes[i].at = "update"
    /\ rows' = [k \in DOMAIN rows |->
                  IF k \in RowsOf(writes[i].user, writes[i].day)
                  THEN [rows[k] EXCEPT !.hours_logged = @ + writes[i].time] ELSE rows[k]]
    /\ Finished(i)
    /\ UNCHANGED <<today, spent, overlapped, nights>>

\* The day's name is the one of the call, the date that of the insertion.
Insert(i) ==
    /\ writes[i].at = "insert"
    /\ rows' = Append(rows, [user |-> writes[i].user, created_at |-> today,
                             day_name |-> NameOf(writes[i].day),
                             hours_logged |-> writes[i].time])
    /\ Finished(i)
    /\ UNCHANGED <<today, spent, overlapped, nights>>

\* A row that is inserted after midnight has the name of a day and the date of
\* the next: both days' times and, a week later, that name's are mixed.
Midnight ==
    /\ today < MaxDay
    /\ today' = today + 1
    /\ nights' = nights \cup
          {<<u, d>> : u \in {v \in Users : Writing(v)}, d \in {today, today + 1, today + Week}}
    /\ UNCHANGED <<rows, writes, spent, overlapped>>

LogNext ==
    \/ \E t \in Tabs :
          /\ Connect(t, TRUE) \/ Connect(t, FALSE) \/ DisconnectInLobby(t)
          /\ UNCHANGED logVars
    \/ \E t \in Tabs : Disconnect(t) /\ LogSession(Owner[t])
    \/ \E t \in Tabs : Removed(t) /\ LogSession(Owner[t])
    \/ \E i \in DOMAIN writes : (Read(i) \/ Insert(i) \/ Update(i)) /\ UNCHANGED presence
    \/ Midnight /\ UNCHANGED presence

LogSpec == LogInit /\ [][LogNext]_<<presence, logVars>>

(* The chart: getLogtimeofUserWeek, and the first row of a day's name. *)
\* fault: one day more than there are names
WeekAndADay(u) ==
    {k \in DOMAIN rows : rows[k].user = u /\ rows[k].created_at \in (today - Week)..today}
LogtimeOfUserWeek(u) ==
    {k \in DOMAIN rows : rows[k].user = u /\ rows[k].created_at \in (today - Week + 1)..today}

FirstOf(found) == CHOOSE k \in found : \A l \in found : k <= l

Bar(u, day) ==
    LET named == {k \in LogtimeOfUserWeek(u) : rows[k].day_name = NameOf(day)}
    IN IF named = {} THEN 0 ELSE rows[FirstOf(named)].hours_logged

(***************************************************************************)
(* The chart tells the truth: for a day whose calls all ended before       *)
(* midnight, it never shows more than the time of the sessions that ended  *)
(* then, and exactly that when no two calls of the user overlapped and     *)
(* none is under way (userModel.js:240, lineChart.tsx:51).                 *)
(***************************************************************************)
ChartIsTrue ==
    \A u \in Users : \A day \in (today - Week + 1)..today :
        day \in Days /\ <<u, day>> \notin nights =>
            /\ Bar(u, day) <= spent[<<u, day>>]
            /\ ~ Writing(u) /\ <<u, day>> \notin overlapped => Bar(u, day) = spent[<<u, day>>]

(***************************************************************************)
(* The rows are in range, and the chart tells what they stand for.         *)
(***************************************************************************)
LogIsKept == LogTypeOK /\ ChartIsTrue
=============================================================================
