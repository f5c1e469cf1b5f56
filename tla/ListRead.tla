------------------------------ MODULE ListRead ------------------------------
(***************************************************************************)
(* What a read of a Microsoft service promises its caller: one answer,     *)
(* which is the whole of what the service has under the route or a         *)
(* failure, and never a part of it.                                        *)
(***************************************************************************)
EXTENDS Integers, Sequences

CONSTANTS Pages, FirstPage

VARIABLES
  service,  \* the page each page of the service names as the next, if any
  paged,    \* FALSE when the route has one object and no further page
  answer    \* the caller's answer: unread, failed, or read and its pages

listVars == <<service, paged, answer>>

Last == "last"
Refused == "refused"
Unread == [state |-> "unread", pages |-> <<>>]
Failed == [state |-> "failed", pages |-> <<>>]
Read(s) == [state |-> "read", pages |-> s]

(* The whole of a list: its pages from the first, each the one the page    *)
(* before it names, up to one that names none.  Links in a circle, or to   *)
(* where a page may not be asked for, have no whole.                       *)
IsWhole(s) ==
  /\ s \in Seq(Pages)
  /\ Len(s) > 0
  /\ s[1] = FirstPage
  /\ IF paged
     THEN /\ \A i \in 1 .. Len(s) - 1 : service[s[i]] = s[i + 1]
          /\ service[s[Len(s)]] = Last
     ELSE Len(s) = 1

ListInit ==
  /\ service \in [Pages -> Pages \cup {Last, Refused}]
  /\ paged \in BOOLEAN
  /\ answer = Unread

ListNext ==
  /\ answer = Unread
  /\ \/ answer' = Failed
     \/ answer'.state = "read" /\ IsWhole(answer'.pages)
  /\ UNCHANGED <<service, paged>>

ListSpec == ListInit /\ [][ListNext]_listVars
=============================================================================
