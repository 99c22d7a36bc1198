------------------------------- MODULE Staff -------------------------------
(***************************************************************************)
(* One person on the staff of one restaurant: the invitation by which they *)
(* join, the membership that can be taken away again, and their hours      *)
(* (StaffService), together with their sessions (Sessions).                *)
(***************************************************************************)
EXTENDS Sessions, Functions

CONSTANT Backdated   \* the instants for which a manager records hours

ASSUME StaffAssumption == Backdated \subseteq Time

VARIABLES
  invites,     \* invitations sent to the person's address
  attendance   \* the attendance events of the membership

staff == <<invites, attendance>>
vars == <<sessionVars, invites, attendance>>

ClockType == {"CLOCK_IN", "CLOCK_OUT"}
Event == [type : ClockType, at : Time]
Invite == [accepted : BOOLEAN, revoked : BOOLEAN, admitted : BOOLEAN]

StaffRequest ==
  [pc : {"invite"}] \cup [pc : {"withdraw", "accept"}, invite : Nat \ {0}] \cup
  [pc : {"clock"}, event : Event]

TypeOK ==
  /\ account \in BOOLEAN /\ member \in {"NONE", "ACTIVE", "INACTIVE"}
  /\ validFrom \in Time \cup {None}
  /\ tokens \in Seq(Token) /\ access \subseteq Access /\ sockets \subseteq Socket
  /\ links \in Seq(Link)
  /\ now \in Time
  /\ req \in [Worker -> SessionRequest \cup StaffRequest]
  /\ regressed \in BOOLEAN /\ forked \subseteq Time
  /\ sent \in 0 .. MaxRequests
  /\ invites \in Seq(Invite)
  /\ attendance \subseteq Event

Init == SessionInit /\ invites = <<>> /\ attendance = {}

-----------------------------------------------------------------------------
(***************************************************************************)
(* Invitations                                                             *)
(***************************************************************************)

Pending(i) == ~invites[i].accepted /\ ~invites[i].revoked

\* createInvite(): not for someone who is on the team ...
InviteRead(w) ==
  /\ member = "NONE"
  /\ Arrive(w, "invite", [pc |-> "invite"])
  /\ UNCHANGED <<person, session, sockets, links, now, staff>>

\* ... and one pending invitation at most (staff_invites_one_pending).
InviteWrite(w) ==
  /\ req[w].pc = "invite"
  /\ invites' = IF \E i \in DOMAIN invites : Pending(i) THEN invites
                ELSE Append(invites, [accepted |-> FALSE, revoked |-> FALSE,
                                      admitted |-> FALSE])
  /\ End(w)
  /\ UNCHANGED <<person, session, sockets, links, now, attendance>>

\* revokeInvite(): a pending invitation is found ...
WithdrawRead(w, i) ==
  /\ Pending(i)
  /\ Arrive(w, "invite", [pc |-> "withdraw", invite |-> i])
  /\ UNCHANGED <<person, session, sockets, links, now, staff>>

\* ... and updated by its id, accepted or not.
WithdrawWrite(w) ==
  LET i == req[w].invite IN
  /\ req[w].pc = "withdraw"
  /\ invites' = [invites EXCEPT ![i] = [accepted |-> invites[i].accepted,
                                        revoked |-> TRUE,
                                        admitted |-> invites[i].admitted]]
  /\ End(w)
  /\ UNCHANGED <<person, session, sockets, links, now, attendance>>

\* acceptInvite(): a valid invitation, and no account with its address.
AcceptRead(w, i) ==
  /\ Pending(i) /\ ~account
  /\ Arrive(w, "invite", [pc |-> "accept", invite |-> i])
  /\ UNCHANGED <<person, session, sockets, links, now, staff>>

\* The invitation is consumed if it is still pending; the account and the
\* membership are made in the same transaction, which the unique email undoes.
\* The person is signed in.
AcceptWrite(w) ==
  LET i == req[w].invite IN
  /\ req[w].pc = "accept"
  /\ IF Pending(i) /\ ~account
     THEN /\ invites' = [invites EXCEPT ![i] = [accepted |-> TRUE,
                                                revoked |-> invites[i].revoked,
                                                admitted |-> TRUE]]
          /\ account' = TRUE /\ member' = "ACTIVE"
          /\ Goto(w, [pc |-> "mint", family |-> None, scoped |-> TRUE])
     ELSE End(w) /\ UNCHANGED <<person, invites>>
  /\ UNCHANGED <<session, sockets, links, now, attendance>>

-----------------------------------------------------------------------------
(***************************************************************************)
(* Members                                                                 *)
(***************************************************************************)

\* updateMember(): a member is deactivated, then signed out everywhere.
Deactivate(w) ==
  /\ member # "NONE"
  /\ member' = "INACTIVE"
  /\ Arrive(w, "member", [pc |-> "sweep"])
  /\ UNCHANGED <<account, session, sockets, links, now, staff>>

Reactivate(w) ==
  /\ member # "NONE"
  /\ member' = "ACTIVE"
  /\ Arrive(w, "member", Idle)
  /\ UNCHANGED <<account, session, sockets, links, now, staff>>

-----------------------------------------------------------------------------
(***************************************************************************)
(* Hours                                                                   *)
(***************************************************************************)

\* The latest event by the time for which it was recorded, as clock() looks
\* for it, or None.
Latest == IF attendance = {} THEN None
        ELSE CHOOSE e \in attendance : \A f \in attendance : f.at <= e.at

\* clock(): in and out alternate, and the first is in, as far as this
\* transaction can see.
ClockRead(w, type, at) ==
  /\ member = "ACTIVE"
  /\ Latest = None => type = "CLOCK_IN"
  /\ Latest # None => Latest.type # type
  /\ Arrive(w, "clock", [pc |-> "clock", event |-> [type |-> type, at |-> at]])
  /\ UNCHANGED <<person, session, sockets, links, staff>>

Clock(w, type) == Stamp /\ ClockRead(w, type, now')

\* A manager records it for a moment in the past.  No two events are for the
\* same millisecond.
ClockBack(w, type, at) ==
  /\ at <= now
  /\ \A e \in attendance : e.at # at
  /\ \A v \in Worker : req[v].pc = "clock" => req[v].event.at # at
  /\ ClockRead(w, type, at)
  /\ UNCHANGED now

ClockWrite(w) ==
  /\ req[w].pc = "clock"
  /\ attendance' = attendance \cup {req[w].event}
  /\ End(w)
  /\ UNCHANGED <<person, session, sockets, links, now, invites>>

\* What is open stays open.
MutantTally(t, e) ==
  IF e.type = "CLOCK_IN" THEN [t EXCEPT !.open = e.at]
  ELSE IF t.open # None THEN [t EXCEPT !.shifts = Append(t.shifts, <<t.open, e.at>>)]
  ELSE t

\* timesheet(), one event: a shift is closed by the first clock-out.
Tally(t, e) ==
  IF e.type = "CLOCK_IN" THEN [t EXCEPT !.open = e.at]
  ELSE IF t.open # None THEN [shifts |-> Append(t.shifts, <<t.open, e.at>>), open |-> None]
  ELSE t

\* timesheet(): the shifts of a period, and the one that is still open.  The
\* events are taken by the time for which they were recorded (orderBy at asc):
\* sheet[t] is the sheet when those before t have been taken.
Timesheet(from, to) ==
  LET sheet[t \in 0 .. to + 1] ==
        LET due == {e \in attendance : e.at = t - 1 /\ from <= e.at}
        IN  IF t = 0 THEN [shifts |-> <<>>, open |-> None]
            ELSE IF due = {} THEN sheet[t - 1]
            ELSE Tally(sheet[t - 1], CHOOSE e \in due : TRUE)
  IN  sheet[to + 1]

-----------------------------------------------------------------------------
StaffStep(w) ==
  InviteWrite(w) \/ WithdrawWrite(w) \/ AcceptWrite(w) \/ ClockWrite(w)

StaffArrival(w) ==
  \/ InviteRead(w)
  \/ \E i \in DOMAIN invites : WithdrawRead(w, i) \/ AcceptRead(w, i)
  \/ Deactivate(w) \/ Reactivate(w)
  \/ \E type \in ClockType : Clock(w, type)
  \/ \E type \in ClockType, at \in Backdated : ClockBack(w, type, at)

Next ==
  \/ SessionNext /\ UNCHANGED staff
  \/ \E w \in Worker : StaffStep(w) \/ StaffArrival(w)

Spec == Init /\ [][Next]_vars

-----------------------------------------------------------------------------
(***************************************************************************)
(* Properties                                                              *)
(***************************************************************************)

\* What was given to the person to be used once works once, and not after it
\* was replaced or withdrawn, however long the request that uses it took to
\* hash a password: reset and verification links ("makes consumption atomic",
\* auth.service.ts:267) and invitations (staff.service.ts:317).
GrantsWorkOnce ==
  [][/\ \A i \in DOMAIN links :
          links'[i].effects # links[i].effects => ~links[i].used /\ links'[i].used
     /\ \A i \in DOMAIN invites :
          invites'[i].admitted # invites[i].admitted => Pending(i) /\ ~account]_vars

\* Hours that can be paid run from a clock-in to the event after it, if that
\* is a clock-out: with double clock-ins and forgotten clock-outs, from two
\* devices or recorded afterwards, no time is paid twice, none is guessed, and
\* the clock-in that has no end is reported (timesheet).
TimesheetPairsNeighbours ==
  \A from, to \in Time :
    LET events == {e \in attendance : e.at \in from .. to}
        Follows(e, f) == e.at < f.at /\ \A g \in events : ~(e.at < g.at /\ g.at < f.at)
        sheet == Timesheet(from, to)
    IN /\ Range(sheet.shifts) =
            {<<p[1].at, p[2].at>> : p \in {q \in events \X events :
               /\ q[1].type = "CLOCK_IN" /\ q[2].type = "CLOCK_OUT"
               /\ Follows(q[1], q[2])}}
       /\ IsInjective(sheet.shifts)
       /\ sheet.open # None <=>
            \E e \in events : e.type = "CLOCK_IN" /\ ~\E f \in events : e.at < f.at
=============================================================================
