---------------------------- MODULE ServerProofs ----------------------------
(***************************************************************************)
(* Proofs about Server, for any descriptors, commands and batches: the     *)
(* invariants of the loop, that it implements Commands and Inbox, and      *)
(* that every step of a round brings its end nearer.                       *)
(*                                                                         *)
(* The inductive invariant LoopInv ties the vector to the clients, and the *)
(* history variable due to what lies ahead of the index.  An action does   *)
(* one of three things to the scan, each with a lemma: it goes on to the   *)
(* next entry (AdvanceOwed), stays at the entry (StayOwed), or erases the  *)
(* entry and stays at the index (DropOwed).                                *)
(***************************************************************************)
EXTENDS Server, TLAPS, SequenceTheorems, FiniteSetTheorems

\* The theorems about the commands, about the clients of the loop.
P == INSTANCE CommandsProofs WITH clients <- clients, client <- client

\* The types the loop itself relies on; those of the clients are in P!TypeOK.
LoopTypeOK ==
  /\ clients \subseteq Fds
  /\ readBuffer \in [Fds -> Seq(Cmds)]
  /\ pollfds \in Seq(Pollfd)
  /\ i \in Nat \ {0}
  /\ pc \in Places
  /\ signal \in BOOLEAN
  /\ open \subseteq Fds \cup {ServerSocket}
  /\ due \subseteq (Fds \cup {ServerSocket}) \X Events
  /\ pc \in {"commands", "write"} => i <= Len(pollfds) /\ Entry.fd \in Fds

\* poll is never asked whether the listening socket is writable.
ListenerOnlyReads ==
  \A k \in 1..Len(pollfds) :
    pollfds[k].fd = ServerSocket =>
      pollfds[k].events = {"IN"} /\ pollfds[k].revents \subseteq {"IN"}

\* The scan still has to act on event ev of descriptor fd.
Ahead(k) ==
  IF k = i /\ pc # "scan" THEN pollfds[k].revents \ {"IN"} ELSE pollfds[k].revents
Owed(fd, ev) == \E k \in i..Len(pollfds) : pollfds[k].fd = fd /\ ev \in Ahead(k)

\* RoundServesEachEventOnce, one event at a time.
DueIsOwed ==
  pc \in {"loop", "scan", "commands", "write"} =>
    \A fd \in Fds \cup {ServerSocket}, ev \in Events :
      <<fd, ev>> \in due <=> Owed(fd, ev)

\* The inductive invariant.
LoopInv ==
  /\ LoopTypeOK
  /\ PollSetMatchesClients
  /\ ListenerOnlyReads
  /\ DueIsOwed
  /\ NoCommandLeftBehind
  /\ NoDescriptorLeak

-----------------------------------------------------------------------------
(***************************************************************************)
(* The scan over _pollfds.                                                 *)
(***************************************************************************)

\* Erasing an entry moves those behind it one place to the front.
LEMMA WithoutProperties ==
  ASSUME pollfds \in Seq(Pollfd), NEW k \in 1..Len(pollfds)
  PROVE  /\ without(k) \in Seq(Pollfd)
         /\ Len(without(k)) = Len(pollfds) - 1
         /\ \A j \in 1..(Len(pollfds) - 1) :
              without(k)[j] = IF j < k THEN pollfds[j] ELSE pollfds[j + 1]
<1> DEFINE front == SubSeq(pollfds, 1, k - 1)
           back == SubSeq(pollfds, k + 1, Len(pollfds))
<1>1. Len(pollfds) \in Nat /\ k \in Nat /\ \A j \in 1..Len(pollfds) : pollfds[j] \in Pollfd
  OBVIOUS
<1>2. /\ front \in Seq(Pollfd)
      /\ Len(front) = k - 1
      /\ \A j \in 1..(k - 1) : front[j] = pollfds[j]
  <2>1. \A j \in 1..(k - 1) : pollfds[j] \in Pollfd
    BY <1>1
  <2>2. /\ front \in Seq(Pollfd)
        /\ Len(front) = IF 1 <= k - 1 THEN (k - 1) - 1 + 1 ELSE 0
        /\ \A j \in 1..((k - 1) - 1 + 1) : front[j] = pollfds[1 + j - 1]
    BY <1>1, <2>1, SubSeqProperties
  <2> HIDE DEF front
  <2> QED
    BY <1>1, <2>2
<1>3. /\ back \in Seq(Pollfd)
      /\ Len(back) = Len(pollfds) - k
      /\ \A j \in 1..(Len(pollfds) - k) : back[j] = pollfds[k + j]
  <2>1. \A j \in (k + 1)..Len(pollfds) : pollfds[j] \in Pollfd
    BY <1>1
  <2>2. /\ back \in Seq(Pollfd)
        /\ Len(back) = IF k + 1 <= Len(pollfds) THEN Len(pollfds) - (k + 1) + 1 ELSE 0
        /\ \A j \in 1..(Len(pollfds) - (k + 1) + 1) : back[j] = pollfds[k + 1 + j - 1]
    BY <1>1, <2>1, SubSeqProperties
  <2> HIDE DEF back
  <2> QED
    BY <1>1, <2>2
<1> HIDE DEF front, back
<1>4. /\ front \o back \in Seq(Pollfd)
      /\ Len(front \o back) = Len(front) + Len(back)
      /\ \A j \in 1..(Len(front) + Len(back)) :
           (front \o back)[j] = IF j <= Len(front) THEN front[j] ELSE back[j - Len(front)]
  BY <1>2, <1>3, ConcatProperties
<1>5. without(k) = front \o back
  BY DEF without, front, back
<1> HIDE DEF without
<1>6. Len(without(k)) = Len(pollfds) - 1
  <2>1. Len(front) = k - 1 /\ Len(back) = Len(pollfds) - k
    BY <1>2, <1>3
  <2>2. Len(without(k)) = Len(front) + Len(back)
    BY <1>4, <1>5, Zenon
  <2> QED
    BY <1>1, <2>1, <2>2
<1>7. ASSUME NEW j \in 1..(Len(pollfds) - 1)
      PROVE  without(k)[j] = IF j < k THEN pollfds[j] ELSE pollfds[j + 1]
  <2>1. j \in 1..(Len(front) + Len(back))
    BY <1>1, <1>2, <1>3
  <2>2. without(k)[j] = IF j <= Len(front) THEN front[j] ELSE back[j - Len(front)]
    BY <2>1, <1>4, <1>5
  <2>3. CASE j < k
    BY <2>2, <2>3, <1>1, <1>2
  <2>4. CASE ~(j < k)
    <3>1. j - (k - 1) \in 1..(Len(pollfds) - k) /\ k + (j - (k - 1)) = j + 1
      BY <2>4, <1>1
    <3>2. back[j - (k - 1)] = pollfds[j + 1]
      BY <3>1, <1>3
    <3>3. ~(j <= Len(front))
      BY <2>4, <1>1, <1>2
    <3> QED
      BY <2>2, <2>4, <3>2, <3>3, <1>2
  <2> QED
    BY <2>3, <2>4
<1> QED
  BY <1>4, <1>5, <1>6, <1>7

\* The entries before the end keep what they are, those behind have no events.
Extended ==
  /\ pollfds' \in Seq(Pollfd)
  /\ Len(pollfds) <= Len(pollfds')
  /\ \A k \in 1..Len(pollfds) : pollfds'[k] = pollfds[k]
  /\ \A k \in (Len(pollfds) + 1)..Len(pollfds') : pollfds'[k].revents = {}

\* The form in which the proofs use the types: an entry, taken apart.
LEMMA EntryFacts ==
  ASSUME LoopInv
  PROVE  /\ Len(pollfds) \in Nat /\ DOMAIN pollfds = 1..Len(pollfds)
         /\ i \in Nat /\ i >= 1
         /\ \A k \in 1..Len(pollfds) :
              /\ pollfds[k].fd \in Fds \cup {ServerSocket}
              /\ pollfds[k].events \subseteq Events
              /\ pollfds[k].revents \subseteq Events
         /\ \A k, l \in 1..Len(pollfds) : pollfds[k].fd = pollfds[l].fd => k = l
<1>1. \A k \in 1..Len(pollfds) : pollfds[k] \in Pollfd
  BY DEF LoopInv, LoopTypeOK
<1> QED
  BY <1>1 DEF LoopInv, LoopTypeOK, PollSetMatchesClients, Pollfd

\* The scan goes on behind an entry all of whose events are served.
LEMMA AdvanceOwed ==
  ASSUME LoopInv, pc \in {"scan", "write"}, i <= Len(pollfds),
         Extended, i' = i + 1, pc' = "scan",
         \A fd \in Fds \cup {ServerSocket}, ev \in Events :
           <<fd, ev>> \in due' <=>
             <<fd, ev>> \in due /\ ~(fd = Entry.fd /\ ev \in Ahead(i))
  PROVE  DueIsOwed'
<1> SUFFICES ASSUME NEW fd \in Fds \cup {ServerSocket}, NEW ev \in Events
             PROVE  <<fd, ev>> \in due' <=> Owed(fd, ev)'
  BY DEF DueIsOwed
<1>1. <<fd, ev>> \in due <=> Owed(fd, ev)
  BY DEF LoopInv, DueIsOwed
<1>2. Owed(fd, ev)' <=> \E k \in (i + 1)..Len(pollfds') :
                          pollfds'[k].fd = fd /\ ev \in pollfds'[k].revents
  BY DEF Owed, Ahead
<1>3. Owed(fd, ev)' <=> \E k \in (i + 1)..Len(pollfds) :
                          pollfds[k].fd = fd /\ ev \in pollfds[k].revents
  <2>1. Len(pollfds') \in Nat
    BY DEF Extended
  <2> QED
    BY <1>2, <2>1, EntryFacts DEF Extended
<1>4. Owed(fd, ev) <=> \/ fd = Entry.fd /\ ev \in Ahead(i)
                       \/ \E k \in (i + 1)..Len(pollfds) :
                            pollfds[k].fd = fd /\ ev \in pollfds[k].revents
  BY EntryFacts DEF Owed, Ahead, Entry
<1>5. ASSUME NEW k \in (i + 1)..Len(pollfds) PROVE pollfds[k].fd # Entry.fd
  BY EntryFacts DEF Entry
<1> QED
  BY <1>1, <1>3, <1>4, <1>5

\* The scan stays at an entry whose POLLIN is served.
LEMMA StayOwed ==
  ASSUME LoopInv, pc \in {"scan", "commands"}, i <= Len(pollfds),
         pollfds' = pollfds, i' = i, pc' \in {"commands", "write"},
         \A fd \in Fds \cup {ServerSocket}, ev \in Events :
           <<fd, ev>> \in due' <=>
             <<fd, ev>> \in due /\ ~(fd = Entry.fd /\ ev = "IN")
  PROVE  DueIsOwed'
<1> SUFFICES ASSUME NEW fd \in Fds \cup {ServerSocket}, NEW ev \in Events
             PROVE  <<fd, ev>> \in due' <=> Owed(fd, ev)'
  BY DEF DueIsOwed
<1>1. <<fd, ev>> \in due <=> Owed(fd, ev)
  BY DEF LoopInv, DueIsOwed
<1>2. Owed(fd, ev)' <=> \/ fd = Entry.fd /\ ev \in Entry.revents \ {"IN"}
                        \/ \E k \in (i + 1)..Len(pollfds) :
                             pollfds[k].fd = fd /\ ev \in pollfds[k].revents
  BY EntryFacts DEF Owed, Ahead, Entry
<1>3. Owed(fd, ev) <=> \/ fd = Entry.fd /\ ev \in Ahead(i)
                       \/ \E k \in (i + 1)..Len(pollfds) :
                            pollfds[k].fd = fd /\ ev \in pollfds[k].revents
  BY EntryFacts DEF Owed, Ahead, Entry
<1>4. ASSUME NEW k \in (i + 1)..Len(pollfds) PROVE pollfds[k].fd # Entry.fd
  BY EntryFacts DEF Entry
<1>5. Ahead(i) \ {"IN"} = Entry.revents \ {"IN"}
  BY DEF Ahead, Entry
<1> QED
  BY <1>1, <1>2, <1>3, <1>4, <1>5

\* The entry under the scan is erased and nothing is due to it any more.
LEMMA DropOwed ==
  ASSUME LoopInv, pc \in {"scan", "write"}, i <= Len(pollfds),
         pollfds' = without(i), i' = i, pc' = "scan",
         due' = due \ ({Entry.fd} \X Events)
  PROVE  DueIsOwed'
<1> SUFFICES ASSUME NEW fd \in Fds \cup {ServerSocket}, NEW ev \in Events
             PROVE  <<fd, ev>> \in due' <=> Owed(fd, ev)'
  BY DEF DueIsOwed
<1>1. <<fd, ev>> \in due <=> Owed(fd, ev)
  BY DEF LoopInv, DueIsOwed
<1>2. /\ Len(pollfds') = Len(pollfds) - 1
      /\ \A k \in i..Len(pollfds') : pollfds'[k] = pollfds[k + 1]
  <2>1. pollfds \in Seq(Pollfd) /\ i \in 1..Len(pollfds)
    BY EntryFacts DEF LoopInv, LoopTypeOK
  <2>2. /\ Len(pollfds') = Len(pollfds) - 1
        /\ \A j \in 1..(Len(pollfds) - 1) :
             pollfds'[j] = IF j < i THEN pollfds[j] ELSE pollfds[j + 1]
    BY <2>1, WithoutProperties
  <2>3. ASSUME NEW k \in i..(Len(pollfds) - 1)
        PROVE  k \in 1..(Len(pollfds) - 1) /\ ~(k < i)
    BY EntryFacts
  <2> QED
    BY <2>2, <2>3
<1>3. Owed(fd, ev)' <=> \E k \in i..(Len(pollfds) - 1) :
                          pollfds[k + 1].fd = fd /\ ev \in pollfds[k + 1].revents
  BY <1>2 DEF Owed, Ahead
<1>4. Owed(fd, ev)' <=> \E k \in (i + 1)..Len(pollfds) :
                          pollfds[k].fd = fd /\ ev \in pollfds[k].revents
  <2>1. ASSUME NEW k \in i..(Len(pollfds) - 1) PROVE k + 1 \in (i + 1)..Len(pollfds)
    BY EntryFacts
  <2>2. ASSUME NEW k \in (i + 1)..Len(pollfds)
        PROVE k - 1 \in i..(Len(pollfds) - 1) /\ (k - 1) + 1 = k
    BY EntryFacts
  <2> QED
    BY <1>3, <2>1, <2>2
<1>5. Owed(fd, ev) <=> \/ fd = Entry.fd /\ ev \in Ahead(i)
                       \/ \E k \in (i + 1)..Len(pollfds) :
                            pollfds[k].fd = fd /\ ev \in pollfds[k].revents
  BY EntryFacts DEF Owed, Ahead, Entry
<1>6. ASSUME NEW k \in (i + 1)..Len(pollfds) PROVE pollfds[k].fd # Entry.fd
  BY EntryFacts DEF Entry
<1>7. <<fd, ev>> \in due' <=> <<fd, ev>> \in due /\ fd # Entry.fd
  OBVIOUS
<1> QED
  BY <1>1, <1>4, <1>5, <1>6, <1>7

-----------------------------------------------------------------------------
(***************************************************************************)
(* How _pollfds follows _clients.                                          *)
(***************************************************************************)

\* Events are written into the entries, the entries stay where they are.
LEMMA KeptPollSet ==
  ASSUME LoopInv, pollfds' \in Seq(Pollfd), Len(pollfds') = Len(pollfds),
         \A k \in 1..Len(pollfds) : pollfds'[k].fd = pollfds[k].fd,
         UNCHANGED clients
  PROVE  PollSetMatchesClients'
<1>1. DOMAIN pollfds' = 1..Len(pollfds) /\ DOMAIN pollfds = 1..Len(pollfds)
  BY EntryFacts
<1>2. pollfds # <<>> /\ 1 \in 1..Len(pollfds)
  BY EmptySeq, EntryFacts DEF LoopInv, LoopTypeOK, PollSetMatchesClients
<1>3. pollfds' # <<>>
  BY <1>1, <1>2, EmptySeq
<1>4. {pollfds'[k].fd : k \in 1..Len(pollfds)} = {pollfds[k].fd : k \in 1..Len(pollfds)}
  OBVIOUS
<1> QED
  BY <1>1, <1>2, <1>3, <1>4 DEF LoopInv, PollSetMatchesClients

\* A new client takes a new entry.
LEMMA AppendedPollSet ==
  ASSUME LoopInv, NEW fd \in Fds, fd \notin clients,
         pollfds' = Append(pollfds, newPollfd(fd)),
         clients' = clients \cup {fd}
  PROVE  /\ PollSetMatchesClients'
         /\ Extended
         /\ ListenerOnlyReads'
<1> DEFINE n == Len(pollfds)
<1>1. newPollfd(fd) \in Pollfd /\ newPollfd(fd).fd = fd /\ newPollfd(fd).revents = {}
  BY DEF newPollfd, Pollfd, Events
<1>2. /\ pollfds' \in Seq(Pollfd)
      /\ pollfds' # <<>>
      /\ Len(pollfds') = n + 1
      /\ \A k \in 1..n : pollfds'[k] = pollfds[k]
      /\ pollfds'[n + 1] = newPollfd(fd)
  BY <1>1, AppendProperties DEF LoopInv, LoopTypeOK
<1>3. n \in Nat /\ DOMAIN pollfds = 1..n /\ DOMAIN pollfds' = 1..(n + 1)
  BY <1>2, EntryFacts
<1>4. pollfds # <<>> /\ 1 \in 1..n
  BY <1>3, EmptySeq DEF LoopInv, LoopTypeOK, PollSetMatchesClients
<1>5. \A k \in 1..(n + 1) : k \in 1..n \/ k = n + 1
  BY <1>3
<1>6. Extended
  BY <1>1, <1>2, <1>3, <1>5 DEF Extended
<1>7. fd # ServerSocket
  BY ServerAssumption
<1>8. ListenerOnlyReads'
  BY <1>1, <1>2, <1>3, <1>5, <1>7 DEF LoopInv, ListenerOnlyReads
<1>9. {pollfds'[k].fd : k \in 1..(n + 1)} = {pollfds[k].fd : k \in 1..n} \cup {fd}
  BY <1>1, <1>2, <1>3, <1>5
<1>10. \A k \in 1..n : pollfds[k].fd # fd
  BY <1>3, <1>7 DEF LoopInv, PollSetMatchesClients
<1>11. \A k, l \in 1..(n + 1) : pollfds'[k].fd = pollfds'[l].fd => k = l
  BY <1>1, <1>2, <1>5, <1>10, EntryFacts
<1>12. {pollfds[k].fd : k \in 1..n} = clients \cup {ServerSocket} /\ pollfds[1].fd = ServerSocket
  BY <1>3 DEF LoopInv, PollSetMatchesClients
<1>13. PollSetMatchesClients'
  BY <1>2, <1>3, <1>4, <1>9, <1>11, <1>12 DEF PollSetMatchesClients
<1> QED
  BY <1>6, <1>8, <1>13

\* A client leaves with its entry.
LEMMA DroppedPollSet ==
  ASSUME LoopInv, NEW k \in 1..Len(pollfds), pollfds[k].fd \in clients,
         pollfds' = without(k),
         clients' = clients \ {pollfds[k].fd}
  PROVE  /\ pollfds' \in Seq(Pollfd)
         /\ PollSetMatchesClients'
         /\ ListenerOnlyReads'
<1> DEFINE n == Len(pollfds)
           old(j) == IF j < k THEN j ELSE j + 1
<1>1. n \in Nat /\ k \in 1..n /\ DOMAIN pollfds = 1..n
  BY EntryFacts
<1>2. /\ pollfds' \in Seq(Pollfd)
      /\ Len(pollfds') = n - 1
      /\ \A j \in 1..(n - 1) : pollfds'[j] = pollfds[old(j)]
  BY WithoutProperties DEF LoopInv, LoopTypeOK
<1>3. n - 1 \in Nat /\ DOMAIN pollfds' = 1..(n - 1)
  BY <1>1, <1>2
<1>4. /\ pollfds[1].fd = ServerSocket
      /\ {pollfds[j].fd : j \in 1..n} = clients \cup {ServerSocket}
  BY <1>1 DEF LoopInv, PollSetMatchesClients
<1>5. pollfds[k].fd # ServerSocket
  BY ServerAssumption DEF LoopInv, LoopTypeOK
<1>6. 1 < k /\ 1 \in 1..(n - 1)
  BY <1>1, <1>4, <1>5
<1>7. \A j \in 1..(n - 1) : old(j) \in 1..n /\ old(j) # k
  BY <1>1
<1>8. \A j, l \in 1..(n - 1) : old(j) = old(l) => j = l
  BY <1>1
<1>9. \A m \in 1..n : m # k => \E j \in 1..(n - 1) : old(j) = m
  <2> SUFFICES ASSUME NEW m \in 1..n, m # k PROVE \E j \in 1..(n - 1) : old(j) = m
    OBVIOUS
  <2>1. CASE m < k
    <3>1. m \in 1..(n - 1) /\ old(m) = m
      BY <2>1, <1>1
    <3> QED
      BY <3>1
  <2>2. CASE m > k
    <3>1. m - 1 \in 1..(n - 1) /\ old(m - 1) = m
      BY <2>2, <1>1
    <3> QED
      BY <3>1
  <2> QED
    BY <2>1, <2>2, <1>1
<1>10. pollfds'[1].fd = ServerSocket /\ pollfds' # <<>>
  BY <1>2, <1>3, <1>4, <1>6, EmptySeq
<1> HIDE DEF old
<1>11. \A j, l \in 1..(n - 1) : pollfds'[j].fd = pollfds'[l].fd => j = l
  BY <1>2, <1>7, <1>8, EntryFacts
<1>12. {pollfds'[j].fd : j \in 1..(n - 1)} = clients' \cup {ServerSocket}
  <2>1. ASSUME NEW j \in 1..(n - 1) PROVE pollfds'[j].fd \in clients' \cup {ServerSocket}
    <3>1. pollfds[old(j)].fd # pollfds[k].fd
      BY <1>7, EntryFacts
    <3> QED
      BY <3>1, <1>2, <1>4, <1>7
  <2>2. ASSUME NEW fd \in clients' \cup {ServerSocket}
        PROVE  \E j \in 1..(n - 1) : pollfds'[j].fd = fd
    <3>1. PICK m \in 1..n : pollfds[m].fd = fd
      BY <1>4
    <3>2. m # k
      BY <3>1, <1>5
    <3> QED
      BY <3>1, <3>2, <1>2, <1>9
  <2> QED
    BY <2>1, <2>2
<1>13. ListenerOnlyReads'
  <2> SUFFICES ASSUME NEW j \in 1..(n - 1), pollfds'[j].fd = ServerSocket
               PROVE  /\ pollfds'[j].events = {"IN"}
                      /\ pollfds'[j].revents \subseteq {"IN"}
    BY <1>2 DEF ListenerOnlyReads
  <2>1. old(j) \in 1..n /\ pollfds'[j] = pollfds[old(j)]
    BY <1>2, <1>7
  <2> QED
    BY <2>1 DEF LoopInv, ListenerOnlyReads
<1> QED
  BY <1>2, <1>3, <1>10, <1>11, <1>12, <1>13 DEF PollSetMatchesClients

-----------------------------------------------------------------------------
(***************************************************************************)
(* What the steps have in common.                                          *)
(***************************************************************************)

\* No step but the last closes what it does not drop.
LEMMA SamePolled ==
  ASSUME LoopInv, UNCHANGED <<clients, pollfds, open>>,
         pc # "stopped", pc' # "stopped"
  PROVE  PollSetMatchesClients' /\ ListenerOnlyReads' /\ NoDescriptorLeak'
  BY DEF LoopInv, PollSetMatchesClients, ListenerOnlyReads, NoDescriptorLeak

\* Outside the loop over the commands of one read no command waits.
LEMMA NothingWaits ==
  ASSUME LoopInv, pc # "commands"
  PROVE  \A fd \in Fds : readBuffer[fd] = <<>>
  BY DEF LoopInv, NoCommandLeftBehind

\* Hence a step that leaves the buffers alone there leaves nothing behind.
LEMMA NothingLeftBehind ==
  ASSUME LoopInv, pc # "commands", UNCHANGED readBuffer
  PROVE  NoCommandLeftBehind'
  BY NothingWaits DEF NoCommandLeftBehind

\* The entry under the scan belongs to a connected client.
LEMMA EntryIsClient ==
  ASSUME LoopInv, i <= Len(pollfds), Entry.fd \in Fds
  PROVE  Entry.fd \in clients
<1>1. i \in DOMAIN pollfds
  BY EntryFacts
<1> QED
  BY <1>1, ServerAssumption DEF LoopInv, PollSetMatchesClients, Entry

\* What the scan does not have ahead at its entry is not due there.
LEMMA NotDue ==
  ASSUME LoopInv, pc \in {"scan", "commands", "write"}, i <= Len(pollfds),
         NEW ev \in Events \ Ahead(i)
  PROVE  <<Entry.fd, ev>> \notin due
<1>1. i \in 1..Len(pollfds) /\ Entry.fd \in Fds \cup {ServerSocket}
  BY EntryFacts DEF Entry
<1>2. <<Entry.fd, ev>> \in due <=> Owed(Entry.fd, ev)
  BY <1>1 DEF LoopInv, DueIsOwed
<1>3. ASSUME NEW k \in i..Len(pollfds), pollfds[k].fd = Entry.fd PROVE k = i
  BY <1>3, EntryFacts DEF Entry
<1> QED
  BY <1>2, <1>3 DEF Owed

\* The entries are rewritten one by one.
LEMMA RewrittenEntries ==
  ASSUME pollfds \in Seq(Pollfd), NEW new \in [DOMAIN pollfds -> Pollfd]
  PROVE  new \in Seq(Pollfd) /\ Len(new) = Len(pollfds)
<1>1. Len(pollfds) \in Nat /\ DOMAIN pollfds = 1..Len(pollfds)
  BY LenProperties
<1>2. new \in [1..Len(pollfds) -> Pollfd]
  BY <1>1
<1>3. new \in Seq(Pollfd)
  BY <1>1, <1>2, SeqDef
<1> QED
  BY <1>1, <1>2, <1>3, LenProperties

-----------------------------------------------------------------------------
(***************************************************************************)
(* The steps of the round.                                                 *)
(***************************************************************************)

\* Events are asked for anew; nothing is reported yet.
LEMMA StartRound ==
  ASSUME LoopInv, startRound
  PROVE  LoopInv'
<1> USE DEF startRound
<1>1. /\ pollfds \in Seq(Pollfd) /\ DOMAIN pollfds = 1..Len(pollfds)
      /\ \A k \in 1..Len(pollfds) : pollfds[k] \in Pollfd
  BY EntryFacts DEF LoopInv, LoopTypeOK
<1>2. pollfds' \in [DOMAIN pollfds -> Pollfd]
  BY <1>1 DEF Pollfd, Events
<1>3. pollfds' \in Seq(Pollfd) /\ Len(pollfds') = Len(pollfds)
  BY <1>1, <1>2, RewrittenEntries
<1>4. \A k \in 1..Len(pollfds) :
        /\ pollfds'[k].fd = pollfds[k].fd
        /\ pollfds'[k].revents = pollfds[k].revents
        /\ pollfds[k].fd = ServerSocket => pollfds'[k].events = {"IN"}
  BY <1>1 DEF Pollfd
<1>5. LoopTypeOK'
  BY <1>3 DEF LoopInv, LoopTypeOK, Places
<1>6. PollSetMatchesClients'
  BY <1>3, <1>4, KeptPollSet
<1>7. ListenerOnlyReads'
  BY <1>3, <1>4 DEF LoopInv, ListenerOnlyReads
<1> QED
  BY <1>5, <1>6, <1>7, NothingLeftBehind DEF LoopInv, DueIsOwed, NoDescriptorLeak

\* What poll reports is due, and the whole vector is ahead.
LEMMA PollReturns ==
  ASSUME LoopInv, NEW ready \in [DOMAIN pollfds -> SUBSET Events],
         pollReturns(ready)
  PROVE  LoopInv'
<1> USE DEF pollReturns
<1>1. /\ pollfds \in Seq(Pollfd) /\ DOMAIN pollfds = 1..Len(pollfds)
      /\ \A k \in 1..Len(pollfds) : pollfds[k] \in Pollfd
  BY EntryFacts DEF LoopInv, LoopTypeOK
<1>2. pollfds' \in [DOMAIN pollfds -> Pollfd]
  BY <1>1 DEF Pollfd
<1>3. pollfds' \in Seq(Pollfd) /\ Len(pollfds') = Len(pollfds)
  BY <1>1, <1>2, RewrittenEntries
<1>4. \A k \in 1..Len(pollfds) :
        /\ pollfds'[k].fd = pollfds[k].fd
        /\ pollfds'[k].events = pollfds[k].events
        /\ pollfds'[k].revents = ready[k]
        /\ ready[k] \subseteq pollfds[k].events
  BY <1>1 DEF Pollfd
<1>5. \A fd, ev : <<fd, ev>> \in due' <=>
        \E k \in 1..Len(pollfds) : pollfds[k].fd = fd /\ ev \in ready[k]
  BY <1>1
<1>6. due' \subseteq (Fds \cup {ServerSocket}) \X Events
  BY <1>1, EntryFacts
<1>7. LoopTypeOK'
  BY <1>3, <1>6 DEF LoopInv, LoopTypeOK, Places
<1>8. PollSetMatchesClients'
  BY <1>3, <1>4, KeptPollSet
<1>9. ListenerOnlyReads'
  BY <1>3, <1>4 DEF LoopInv, ListenerOnlyReads
<1>10. DueIsOwed'
  <2> SUFFICES ASSUME NEW fd \in Fds \cup {ServerSocket}, NEW ev \in Events
               PROVE  <<fd, ev>> \in due' <=> Owed(fd, ev)'
    BY DEF DueIsOwed
  <2>1. Owed(fd, ev)' <=> \E k \in 1..Len(pollfds) :
                            pollfds'[k].fd = fd /\ ev \in pollfds'[k].revents
    BY <1>3 DEF Owed, Ahead
  <2> QED
    BY <2>1, <1>4, <1>5
<1> QED
  BY <1>7, <1>8, <1>9, <1>10, NothingLeftBehind DEF LoopInv, NoDescriptorLeak

\* poll gives up, or the loop is left, with or without a signal.
LEMMA LeaveLoop ==
  ASSUME LoopInv, leaveLoop \/ pollFails
  PROVE  LoopInv'
<1> USE DEF leaveLoop, pollFails
<1>1. LoopTypeOK'
  BY DEF LoopInv, LoopTypeOK, Places
<1>2. DueIsOwed'
  BY DEF DueIsOwed
<1> QED
  BY <1>1, <1>2, SamePolled, NothingLeftBehind DEF LoopInv

\* The handler sets a flag, and may end a call of poll.
LEMMA SignalHandler ==
  ASSUME LoopInv, signalHandler
  PROVE  LoopInv'
<1> USE DEF signalHandler
<1>1. LoopTypeOK'
  BY DEF LoopInv, LoopTypeOK, Places, Entry
<1>2. CASE pc' = pc
  <2>1. DueIsOwed'
    BY <1>2 DEF LoopInv, DueIsOwed, Owed, Ahead
  <2>2. NoCommandLeftBehind'
    BY <1>2 DEF LoopInv, NoCommandLeftBehind, Entry
  <2> QED
    BY <1>1, <1>2, <2>1, <2>2, SamePolled DEF LoopInv
<1>3. CASE pc = "poll" /\ pc' = "closing"
  <2>1. DueIsOwed'
    BY <1>3 DEF DueIsOwed
  <2> QED
    BY <1>1, <1>3, <2>1, SamePolled, NothingLeftBehind DEF LoopInv
<1> QED
  BY <1>2, <1>3

\* The index has passed the last entry: nothing is due.
LEMMA EndRound ==
  ASSUME LoopInv, endRound
  PROVE  LoopInv'
<1> USE DEF endRound
<1>1. LoopTypeOK'
  BY DEF LoopInv, LoopTypeOK, Places
<1>2. DueIsOwed'
  <2> SUFFICES ASSUME NEW fd \in Fds \cup {ServerSocket}, NEW ev \in Events
               PROVE  <<fd, ev>> \in due' <=> Owed(fd, ev)'
    BY DEF DueIsOwed
  <2>1. \A k \in i..Len(pollfds) : FALSE
    BY EntryFacts
  <2>2. ~Owed(fd, ev) /\ ~Owed(fd, ev)'
    BY <2>1 DEF Owed
  <2> QED
    BY <2>2 DEF LoopInv, DueIsOwed
<1> QED
  BY <1>1, <1>2, SamePolled, NothingLeftBehind DEF LoopInv

\* Every client and every socket goes at once.
LEMMA CloseAll ==
  ASSUME LoopInv, closeAll
  PROVE  LoopInv'
<1> USE DEF closeAll
<1>1. LoopTypeOK'
  BY DEF LoopInv, LoopTypeOK, Places
<1>2. PollSetMatchesClients' /\ ListenerOnlyReads'
  BY DEF LoopInv, PollSetMatchesClients, ListenerOnlyReads
<1>3. NoDescriptorLeak'
  BY DEF LoopInv, NoDescriptorLeak
<1> QED
  BY <1>1, <1>2, <1>3, NothingLeftBehind DEF LoopInv, DueIsOwed

-----------------------------------------------------------------------------
(***************************************************************************)
(* The steps of the scan.                                                  *)
(***************************************************************************)

\* The listening socket has at most POLLIN ahead.
LEMMA ListenerAhead ==
  ASSUME LoopInv, scanning(ServerSocket)
  PROVE  Ahead(i) = Entry.revents /\ Entry.revents \subseteq {"IN"}
<1>1. i \in 1..Len(pollfds)
  BY EntryFacts DEF scanning
<1> QED
  BY <1>1 DEF LoopInv, ListenerOnlyReads, scanning, Ahead, Entry

\* The new entry is behind the scan or ahead of it, without events.
LEMMA AcceptClient ==
  ASSUME LoopInv, NEW fd \in Fds, acceptClient(fd)
  PROVE  LoopInv'
<1> USE DEF acceptClient, scanning, nextEntry, handled
<1>1. fd \notin clients /\ clients' = clients \cup {fd}
  BY DEF C!acceptClient
<1>2. PollSetMatchesClients' /\ Extended /\ ListenerOnlyReads'
  BY <1>1, AppendedPollSet
<1>3. LoopTypeOK'
  BY <1>1, <1>2 DEF LoopInv, LoopTypeOK, Places, Extended
<1>4. DueIsOwed'
  BY <1>2, ListenerAhead, AdvanceOwed
<1>5. NoDescriptorLeak'
  BY <1>1 DEF LoopInv, NoDescriptorLeak
<1> QED
  BY <1>2, <1>3, <1>4, <1>5, NothingLeftBehind DEF LoopInv

\* The connection is not made, or nobody asks for one.
LEMMA NoAccept ==
  ASSUME LoopInv, acceptFails \/ nothingToAccept
  PROVE  LoopInv'
<1> USE DEF acceptFails, nothingToAccept, scanning, nextEntry, handled
<1>1. LoopTypeOK'
  BY DEF LoopInv, LoopTypeOK, Places
<1>2. Extended
  BY EntryFacts DEF LoopInv, LoopTypeOK, Extended
<1>3. DueIsOwed'
  BY <1>2, ListenerAhead, AdvanceOwed
<1> QED
  BY <1>1, <1>3, SamePolled, NothingLeftBehind DEF LoopInv

\* The entry under the index goes; the index stays for its successor.
LEMMA DropCurrent ==
  ASSUME LoopInv, NEW fd \in Fds, dropCurrent(fd),
         pc \in {"scan", "write"}, i <= Len(pollfds), Entry.fd = fd,
         UNCHANGED signal
  PROVE  LoopInv'
<1> USE DEF dropCurrent
<1>1. fd \in clients /\ clients' = clients \ {fd}
  BY DEF C!clearClient
<1>2. i \in 1..Len(pollfds) /\ pollfds[i].fd = fd
  BY EntryFacts DEF Entry
<1>3. pollfds' \in Seq(Pollfd) /\ PollSetMatchesClients' /\ ListenerOnlyReads'
  BY <1>1, <1>2, DroppedPollSet
<1>4. readBuffer' = readBuffer
  BY NothingWaits DEF LoopInv, LoopTypeOK
<1>5. LoopTypeOK'
  BY <1>1, <1>3, <1>4 DEF LoopInv, LoopTypeOK, Places
<1>6. DueIsOwed'
  BY DropOwed
<1>7. NoDescriptorLeak'
  BY <1>1, ServerAssumption DEF LoopInv, NoDescriptorLeak
<1> QED
  BY <1>3, <1>4, <1>5, <1>6, <1>7, NothingLeftBehind DEF LoopInv

\* recv finds nothing after all, or was not called.
LEMMA NothingReceived ==
  ASSUME LoopInv, NEW fd \in Fds, recvAgain(fd) \/ nothingToRead(fd)
  PROVE  LoopInv'
<1> USE DEF recvAgain, nothingToRead, scanning, toWrite, handled
<1>1. LoopTypeOK'
  BY DEF LoopInv, LoopTypeOK, Places, Entry
<1>2. DueIsOwed'
  <2>1. CASE recvAgain(fd)
    BY <2>1, StayOwed
  <2>2. CASE nothingToRead(fd)
    <3>1. "IN" \in Events \ Ahead(i)
      BY <2>2 DEF Ahead, Entry, Events
    <3>2. <<Entry.fd, "IN">> \notin due
      BY <3>1, NotDue
    <3> QED
      BY <2>2, <3>2, StayOwed
  <2> QED
    BY <2>1, <2>2
<1> QED
  BY <1>1, <1>2, SamePolled, NothingLeftBehind DEF LoopInv

\* The commands of one read are all the commands there are.
LEMMA RecvData ==
  ASSUME LoopInv, NEW fd \in Fds, NEW batch \in Batches, recvData(fd, batch)
  PROVE  LoopInv'
<1> USE DEF recvData, scanning, handled
<1>1. readBuffer[fd] \o batch \in Seq(Cmds)
  BY ServerAssumption, ConcatProperties DEF LoopInv, LoopTypeOK
<1>2. LoopTypeOK'
  BY <1>1 DEF LoopInv, LoopTypeOK, Places, Entry
<1>3. DueIsOwed'
  BY StayOwed
<1>4. NoCommandLeftBehind'
  <2>1. \A e \in Fds \ {fd} : readBuffer'[e] = <<>>
    BY NothingWaits DEF LoopInv, LoopTypeOK
  <2> QED
    BY <2>1 DEF NoCommandLeftBehind, Entry
<1> QED
  BY <1>2, <1>3, <1>4, SamePolled DEF LoopInv

\* A handler changes clients, not the scan.
LEMMA RunCommand ==
  ASSUME LoopInv, NEW fd \in Fds, runCommand(fd)
  PROVE  LoopInv'
<1> USE DEF runCommand
<1>1. readBuffer[fd] \in Seq(Cmds) /\ Tail(readBuffer[fd]) \in Seq(Cmds)
  BY HeadTailProperties DEF LoopInv, LoopTypeOK
<1>2. LoopTypeOK'
  BY <1>1 DEF LoopInv, LoopTypeOK, Entry
<1>3. DueIsOwed'
  BY DEF LoopInv, DueIsOwed, Owed, Ahead
<1>4. NoCommandLeftBehind'
  BY DEF LoopInv, LoopTypeOK, NoCommandLeftBehind, Entry
<1> QED
  BY <1>2, <1>3, <1>4, SamePolled DEF LoopInv

\* The while ends when this connection has no command left.
LEMMA CommandsDone ==
  ASSUME LoopInv, NEW fd \in Fds, commandsDone(fd)
  PROVE  LoopInv'
<1> USE DEF commandsDone, toWrite
<1>1. LoopTypeOK'
  BY DEF LoopInv, LoopTypeOK, Places, Entry
<1>2. i <= Len(pollfds)
  BY DEF LoopInv, LoopTypeOK
<1>3. <<Entry.fd, "IN">> \notin due
  BY <1>2, NotDue DEF Ahead, Events
<1>4. DueIsOwed'
  BY <1>2, <1>3, StayOwed
<1>5. NoCommandLeftBehind'
  BY DEF LoopInv, NoCommandLeftBehind
<1> QED
  BY <1>1, <1>4, <1>5, SamePolled DEF LoopInv

\* In the POLLOUT half of an entry POLLOUT alone may be ahead.
LEMMA WriteAhead ==
  ASSUME LoopInv, NEW fd \in Fds, writing(fd)
  PROVE  i <= Len(pollfds) /\ Ahead(i) = Entry.revents \cap {"OUT"}
<1>1. i \in 1..Len(pollfds)
  BY EntryFacts DEF LoopInv, LoopTypeOK, writing
<1>2. Entry.revents \subseteq {"IN", "OUT"}
  BY <1>1, EntryFacts DEF Entry, Events
<1> QED
  BY <1>1, <1>2 DEF writing, Ahead, Entry

\* The entry has no POLLOUT left to serve.
LEMMA NotWritable ==
  ASSUME LoopInv, NEW fd \in Fds, notWritable(fd)
  PROVE  LoopInv'
<1> USE DEF notWritable, nextEntry
<1>1. pc = "write" /\ i <= Len(pollfds) /\ Ahead(i) = {}
  BY WriteAhead DEF writing
<1>2. LoopTypeOK'
  BY DEF LoopInv, LoopTypeOK, Places
<1>3. Extended
  BY EntryFacts DEF LoopInv, LoopTypeOK, Extended
<1>4. DueIsOwed'
  BY <1>1, <1>3, AdvanceOwed
<1> QED
  BY <1>1, <1>2, <1>4, SamePolled, NothingLeftBehind DEF LoopInv

\* A client is dropped after its last output, or kept.
LEMMA SendData ==
  ASSUME LoopInv, NEW fd \in Fds, NEW sent, sendData(fd, sent)
  PROVE  LoopInv'
<1>1. /\ pc = "write" /\ Entry.fd = fd /\ UNCHANGED signal
      /\ i <= Len(pollfds) /\ Ahead(i) = {"OUT"}
  BY WriteAhead DEF sendData, writing
<1>2. CASE dropCurrent(fd)
  BY <1>1, <1>2, DropCurrent
<1>3. CASE /\ handled(fd, "OUT")
           /\ nextEntry
           /\ UNCHANGED <<clients, readBuffer, pollfds, open>>
  <2> USE DEF handled, nextEntry
  <2>1. LoopTypeOK'
    BY <1>1, <1>3 DEF LoopInv, LoopTypeOK, Places
  <2>2. Extended
    BY <1>3, EntryFacts DEF LoopInv, LoopTypeOK, Extended
  <2>3. DueIsOwed'
    BY <1>1, <1>3, <2>2, AdvanceOwed
  <2> QED
    BY <1>1, <1>3, <2>1, <2>3, SamePolled, NothingLeftBehind DEF LoopInv
<1> QED
  BY <1>2, <1>3 DEF sendData

-----------------------------------------------------------------------------
(***************************************************************************)
(* The invariant.                                                          *)
(***************************************************************************)

\* The loop at its start; a signal may have come before it.
Fresh ==
  /\ C!Init
  /\ readBuffer = [fd \in Fds |-> <<>>]
  /\ pollfds = <<newPollfd(ServerSocket)>>
  /\ i = 1
  /\ pc = "loop"
  /\ signal \in BOOLEAN
  /\ open = {ServerSocket}
  /\ due = {}

\* The listening socket is set up and nobody is connected.
LEMMA InitFresh == Init => Fresh
  BY DEF Init, Fresh

\* That is all the invariant needs to hold.
LEMMA LoopInit == Fresh => LoopInv
<1> SUFFICES ASSUME Fresh PROVE LoopInv
  OBVIOUS
<1> USE DEF Fresh, C!Init
<1>1. newPollfd(ServerSocket) \in Pollfd
      /\ newPollfd(ServerSocket).fd = ServerSocket
      /\ newPollfd(ServerSocket).events = {"IN"}
      /\ newPollfd(ServerSocket).revents = {}
  BY DEF newPollfd, Pollfd, Events
<1>2. /\ pollfds \in Seq(Pollfd) /\ Len(pollfds) = 1 /\ DOMAIN pollfds = {1}
      /\ pollfds[1] = newPollfd(ServerSocket) /\ pollfds # <<>>
  BY <1>1
<1>3. \A k \in 1..Len(pollfds) : pollfds[k] = newPollfd(ServerSocket)
  BY <1>2
<1>4. <<>> \in Seq(Cmds)
  OBVIOUS
<1>5. LoopTypeOK
  <2>1. /\ clients \subseteq Fds /\ open \subseteq Fds \cup {ServerSocket}
        /\ due \subseteq (Fds \cup {ServerSocket}) \X Events
    OBVIOUS
  <2>2. readBuffer \in [Fds -> Seq(Cmds)]
    BY <1>4
  <2>3. i \in Nat \ {0}
    OBVIOUS
  <2>4. signal \in BOOLEAN
    OBVIOUS
  <2>5. pc \in Places /\ pc \notin {"commands", "write"}
    BY DEF Places
  <2> QED
    BY <1>2, <2>1, <2>2, <2>3, <2>4, <2>5 DEF LoopTypeOK
<1>6. PollSetMatchesClients
  BY <1>1, <1>2 DEF PollSetMatchesClients
<1>7. ListenerOnlyReads
  BY <1>1, <1>3 DEF ListenerOnlyReads
<1>8. DueIsOwed
  BY <1>1, <1>2 DEF DueIsOwed, Owed, Ahead
<1>9. NoCommandLeftBehind /\ NoDescriptorLeak
  BY DEF NoCommandLeftBehind, NoDescriptorLeak
<1> QED
  BY <1>5, <1>6, <1>7, <1>8, <1>9 DEF LoopInv

-----------------------------------------------------------------------------
(***************************************************************************)
(* The invariants of the loop.                                             *)
(***************************************************************************)

\* Every action of the loop preserves the invariant.
LEMMA LoopNext == LoopInv /\ [Next]_vars => LoopInv'
<1> SUFFICES ASSUME LoopInv, [Next]_vars PROVE LoopInv'
  OBVIOUS
<1>1. CASE startRound
  BY <1>1, StartRound
<1>2. CASE leaveLoop \/ pollFails
  BY <1>2, LeaveLoop
<1>3. CASE endRound
  BY <1>3, EndRound
<1>4. CASE closeAll
  BY <1>4, CloseAll
<1>5. CASE acceptFails \/ nothingToAccept
  BY <1>5, NoAccept
<1>6. ASSUME NEW fd \in Fds, acceptClient(fd) PROVE LoopInv'
  BY <1>6, AcceptClient
<1>7. ASSUME NEW fd \in Fds, hangUp(fd) PROVE LoopInv'
  BY <1>7, DropCurrent DEF hangUp, scanning
<1>8. ASSUME NEW fd \in Fds, recvAgain(fd) \/ nothingToRead(fd) PROVE LoopInv'
  BY <1>8, NothingReceived
<1>9. ASSUME NEW fd \in Fds, NEW batch \in Batches, recvData(fd, batch) PROVE LoopInv'
  BY <1>9, RecvData
<1>10. ASSUME NEW fd \in Fds, runCommand(fd) PROVE LoopInv'
  BY <1>10, RunCommand
<1>11. ASSUME NEW fd \in Fds, commandsDone(fd) PROVE LoopInv'
  BY <1>11, CommandsDone
<1>12. ASSUME NEW fd \in Fds, notWritable(fd) PROVE LoopInv'
  BY <1>12, NotWritable
<1>13. ASSUME NEW fd \in Fds, NEW sent, sendData(fd, sent) PROVE LoopInv'
  BY <1>13, SendData
<1>14. CASE poll
  BY <1>14, PollReturns DEF poll
<1>15. CASE signalHandler
  BY <1>15, SignalHandler
<1>16. CASE UNCHANGED vars
  BY <1>16 DEF vars, loopVars, LoopInv, LoopTypeOK, PollSetMatchesClients,
     ListenerOnlyReads, DueIsOwed, Owed, Ahead, NoCommandLeftBehind,
     NoDescriptorLeak, Entry
<1> QED
  BY <1>1, <1>2, <1>3, <1>4, <1>5, <1>6, <1>7, <1>8, <1>9, <1>10, <1>11, <1>12,
     <1>13, <1>14, <1>15, <1>16
  DEF Next, LoopStep

\* The inductive invariant holds in every reachable state of the loop.
THEOREM LoopInvariance == Spec => []LoopInv
  BY InitFresh, LoopInit, LoopNext, PTL DEF Spec

\* The vector handed to poll lists the listening socket first and every
\* connected client once, however clients come and go under the scan.
THEOREM PollSetCorrect == Spec => []PollSetMatchesClients
<1>1. LoopInv => PollSetMatchesClients
  BY DEF LoopInv
<1> QED
  BY <1>1, LoopInvariance, PTL

\* What is due, taken apart event by event, is what lies ahead of the scan.
LEMMA OwedIsAhead == LoopInv => RoundServesEachEventOnce
<1> SUFFICES ASSUME LoopInv, pc \in {"loop", "scan", "commands", "write"}
             PROVE  due = UNION {Outstanding(k) : k \in i..Len(pollfds)}
  BY DEF RoundServesEachEventOnce
<1>1. \A k : Outstanding(k) = {pollfds[k].fd} \X Ahead(k)
  BY DEF Outstanding, Ahead
<1>2. ASSUME NEW k \in i..Len(pollfds)
      PROVE  pollfds[k].fd \in Fds \cup {ServerSocket} /\ Ahead(k) \subseteq Events
  <2>1. k \in 1..Len(pollfds)
    BY EntryFacts
  <2> QED
    BY <2>1, EntryFacts DEF Ahead
<1>3. due \subseteq (Fds \cup {ServerSocket}) \X Events
  BY DEF LoopInv, LoopTypeOK
<1>4. \A fd \in Fds \cup {ServerSocket}, ev \in Events :
        <<fd, ev>> \in due <=>
          \E k \in i..Len(pollfds) : pollfds[k].fd = fd /\ ev \in Ahead(k)
  BY DEF LoopInv, DueIsOwed, Owed
<1>5. ASSUME NEW d \in due
      PROVE  \E k \in i..Len(pollfds) : d \in {pollfds[k].fd} \X Ahead(k)
  BY <1>3, <1>4
<1>6. ASSUME NEW k \in i..Len(pollfds), NEW d \in {pollfds[k].fd} \X Ahead(k)
      PROVE  d \in due
  BY <1>2, <1>4
<1> QED
  BY <1>1, <1>5, <1>6

\* The events still due are those ahead of the scan: no entry is skipped or
\* served twice when the vector shrinks or grows under the index.
THEOREM EachEventServedOnce == Spec => []RoundServesEachEventOnce
  BY OwedIsAhead, LoopInvariance, PTL

\* No complete command waits while the loop sleeps in poll.
THEOREM NoCommandWaits == Spec => []NoCommandLeftBehind
<1>1. LoopInv => NoCommandLeftBehind
  BY DEF LoopInv
<1> QED
  BY <1>1, LoopInvariance, PTL

\* The open sockets are always those of the clients and the listening one, and
\* none is left when the server has stopped.
THEOREM DescriptorsAccounted == Spec => []NoDescriptorLeak
<1>1. LoopInv => NoDescriptorLeak
  BY DEF LoopInv
<1> QED
  BY <1>1, LoopInvariance, PTL

-----------------------------------------------------------------------------
(***************************************************************************)
(* The loop implements the specification of the commands.                  *)
(***************************************************************************)

\* Every step of the loop is one of Commands or leaves the clients alone.
LEMMA StepSimulation == LoopInv /\ [Next]_vars => [C!Next]_(C!vars)
<1> SUFFICES ASSUME LoopInv, [Next]_vars PROVE [C!Next]_(C!vars)
  OBVIOUS
<1>1. ASSUME NEW fd \in Fds, acceptClient(fd) PROVE C!Next
  BY <1>1 DEF acceptClient, C!Next
<1>2. ASSUME NEW fd \in Fds, hangUp(fd) PROVE C!Next
  BY <1>2 DEF hangUp, dropCurrent, C!Next
<1>3. ASSUME NEW fd \in Fds, runCommand(fd) PROVE C!Next
  <2>1. fd \in clients
    BY <1>3, EntryIsClient DEF runCommand, LoopInv, LoopTypeOK
  <2>2. Head(readBuffer[fd]) \in Cmds
    BY <1>3, HeadTailProperties DEF runCommand, LoopInv, LoopTypeOK
  <2>3. C!runCommand(fd, Head(readBuffer[fd]))
    BY <1>3, <2>1 DEF runCommand, C!runCommand
  <2> QED
    BY <2>2, <2>3 DEF C!Next
<1>4. ASSUME NEW fd \in Fds, NEW sent \in 0..Len(client[fd].writeBuffer),
             sendData(fd, sent)
      PROVE  C!Next
  <2>1. fd \in clients
    BY <1>4, EntryIsClient DEF sendData, writing, LoopInv, LoopTypeOK
  <2>2. C!sendOutput(fd)
    BY <1>4, <2>1 DEF sendData, dropCurrent, C!sendOutput
  <2> QED
    BY <2>2 DEF C!Next
<1>5. ASSUME UNCHANGED <<clients, client>> PROVE [C!Next]_(C!vars)
  BY <1>5 DEF C!vars
<1>6. CASE Next
  BY <1>1, <1>2, <1>3, <1>4, <1>5, <1>6
  DEF Next, LoopStep, startRound, leaveLoop, endRound, closeAll, acceptFails,
      nothingToAccept, recvAgain, nothingToRead, recvData, commandsDone,
      notWritable, poll, pollReturns, pollFails, signalHandler
<1>7. CASE UNCHANGED vars
  BY <1>5, <1>7 DEF vars
<1> QED
  BY <1>6, <1>7

\* The poll loop implements Commands: every command runs for a connected
\* client, every drop and every send is one the abstract server may make.
THEOREM LoopImplementsCommands == Spec => CommandsSpec
<1>1. Init => C!Init
  BY DEF Init
<1> QED
  BY <1>1, LoopInvariance, StepSimulation, PTL DEF Spec, CommandsSpec, C!Spec

-----------------------------------------------------------------------------
(***************************************************************************)
(* What is proved of Commands holds in the loop.                           *)
(***************************************************************************)

\* P and C are the same module about the same variables.
LEMMA SameStep == [C!Next]_(C!vars) => [P!Next]_(P!vars)
<1>1. ASSUME NEW c \in Fds, NEW cmd \in Cmds
      PROVE  C!processCommand(c, cmd) <=> P!processCommand(c, cmd)
  BY Zenon
  DEF C!processCommand, P!processCommand, C!handlePass, P!handlePass,
      C!nickReply, P!nickReply, C!handleNick, P!handleNick, C!handleUser,
      P!handleUser, C!handlePing, P!handlePing, C!handlePong, P!handlePong,
      C!handleQuit, P!handleQuit, C!hasText, P!hasText, C!handlePrivMsg,
      P!handlePrivMsg, C!Topic, P!Topic, C!Join, P!Join, C!isChannelCommand,
      P!isChannelCommand, C!registeredCommand, P!registeredCommand, C!reply,
      P!reply, C!ServerMsg, P!ServerMsg, C!UserMsg, P!UserMsg, C!isRegistered,
      P!isRegistered, C!isNicknameTaken, P!isNicknameTaken,
      C!getClientByNick, P!getClientByNick
<1>2. ASSUME NEW c \in Fds, NEW cmd \in Cmds
      PROVE  C!runCommand(c, cmd) => P!runCommand(c, cmd)
  BY <1>1 DEF C!runCommand, P!runCommand
<1>3. ASSUME NEW c \in Fds PROVE C!acceptClient(c) => P!acceptClient(c)
  BY DEF C!acceptClient, P!acceptClient
<1>4. ASSUME NEW c \in Fds PROVE C!clearClient(c) => P!clearClient(c)
  BY DEF C!clearClient, P!clearClient, C!NewClient, P!NewClient
<1>5. ASSUME NEW c \in Fds PROVE C!sendOutput(c) => P!sendOutput(c)
  BY <1>4 DEF C!sendOutput, P!sendOutput
<1>6. C!Next => P!Next
  BY <1>2, <1>3, <1>4, <1>5 DEF C!Next, P!Next
<1> QED
  BY <1>6 DEF C!vars, P!vars

\* The clients of a fresh server satisfy the invariant of Commands.
LEMMA ClientsInit == Fresh => P!IInv
<1>1. Fresh => P!Init
  BY DEF Fresh, C!Init, P!Init, C!NewClient, P!NewClient
<1> QED
  BY <1>1, P!InitInv, ServerAssumption
  DEF C!GoodConstants, P!GoodConstants, C!ParsedCommand, P!ParsedCommand,
      C!Text, P!Text, C!CommandNames, P!CommandNames

\* Every step of the loop is one of Commands, and those preserve it.
LEMMA ClientsNext == LoopInv /\ P!IInv /\ [Next]_vars => P!IInv'
<1>1. LoopInv /\ [Next]_vars => [P!Next]_(P!vars)
  BY StepSimulation, SameStep
<1> QED
  BY <1>1, P!NextInv, ServerAssumption
  DEF C!GoodConstants, P!GoodConstants, C!ParsedCommand, P!ParsedCommand,
      C!Text, P!Text, C!CommandNames, P!CommandNames

\* The invariant of the commands holds under the loop: in particular no two
\* clients share a nickname, and a marked client has output for which the loop
\* will ask poll.
THEOREM ClientsInvariance == Spec => []P!IInv
  BY InitFresh, LoopInvariance, ClientsInit, ClientsNext, PTL DEF Spec

\* The loop is an execution of Commands, in the reading of its proofs.
LEMMA LoopRunsCommands == Spec => P!Spec
<1>1. Init => P!Init
  BY DEF Init, C!Init, P!Init, C!NewClient, P!NewClient
<1>2. LoopInv /\ [Next]_vars => [P!Next]_(P!vars)
  BY StepSimulation, SameStep
<1> QED
  BY <1>1, <1>2, LoopInvariance, PTL DEF Spec, P!Spec

\* P's assumption about the constants is the loop's.
LEMMA SameAssumption == P!GoodConstants
  BY ServerAssumption
  DEF C!GoodConstants, P!GoodConstants, C!ParsedCommand, P!ParsedCommand,
      C!Text, P!Text, C!CommandNames, P!CommandNames

\* In the loop too the welcome is sent exactly by the step that completes a
\* registration, nothing goes out under an identity nobody has, and no output
\* is lost, repeated or overtaken.
THEOREM LoopOutput ==
  Spec => /\ P!WelcomeOnRegistration
          /\ P!SourceIsLive
          /\ P!OutputIsFifo
  BY LoopRunsCommands, SameAssumption, P!WelcomedWhenRegistered, P!SourcesLive,
     P!OutputQueued

\* The two inductive invariants together give the type invariant.
LEMMA LoopTypes == LoopInv /\ P!IInv => TypeOK
<1>1. P!IInv => C!TypeOK
  BY DEF P!IInv, P!TypeOK, C!TypeOK, C!Client, P!Client, C!Message, P!Message,
         C!Codes, P!Codes, C!Text, P!Text, C!NewClient, P!NewClient
<1> QED
  BY <1>1 DEF LoopInv, LoopTypeOK, TypeOK

\* Every variable of the loop keeps its type; the index is inside _pollfds
\* whenever the code reads the entry under it.
THEOREM LoopTypeCorrect == Spec => []TypeOK
  BY LoopTypes, LoopInvariance, ClientsInvariance, PTL

\* In poll, the clients with output and no others are asked about POLLOUT.
AsksWhereOutputWaits ==
  pc = "poll" =>
    \A k \in 1..Len(pollfds) : pollfds[k].fd # ServerSocket =>
      ("OUT" \in pollfds[k].events <=> client[pollfds[k].fd].writeBuffer # <<>>)

\* startRound asks anew; nothing appends output between it and poll.
LEMMA AskingNext ==
  LoopInv /\ AsksWhereOutputWaits /\ [Next]_vars => AsksWhereOutputWaits'
<1> SUFFICES ASSUME LoopInv, AsksWhereOutputWaits, [Next]_vars, pc' = "poll"
             PROVE  AsksWhereOutputWaits'
  BY DEF AsksWhereOutputWaits
<1>1. CASE startRound
  <2> USE <1>1 DEF startRound
  <2>1. DOMAIN pollfds = 1..Len(pollfds) /\ \A k \in 1..Len(pollfds) : pollfds[k] \in Pollfd
    BY EntryFacts DEF LoopInv, LoopTypeOK
  <2>2. pollfds' \in [DOMAIN pollfds -> Pollfd]
    BY <2>1 DEF Pollfd, Events
  <2>3. Len(pollfds') = Len(pollfds)
    BY <2>2, RewrittenEntries DEF LoopInv, LoopTypeOK
  <2>4. \A k \in 1..Len(pollfds) :
          /\ pollfds'[k].fd = pollfds[k].fd
          /\ pollfds[k].fd # ServerSocket =>
               ("OUT" \in pollfds'[k].events <=> client[pollfds[k].fd].writeBuffer # <<>>)
    BY <2>1 DEF Pollfd
  <2> QED
    BY <2>3, <2>4 DEF AsksWhereOutputWaits
<1>2. CASE pc = "poll" /\ UNCHANGED <<client, pollfds>>
  BY <1>2 DEF AsksWhereOutputWaits
<1>3. CASE signalHandler
  BY <1>2, <1>3 DEF signalHandler
<1>4. CASE UNCHANGED vars
  BY <1>2, <1>4 DEF vars, loopVars
<1> QED
  BY <1>1, <1>3, <1>4
  DEF Next, LoopStep, leaveLoop, endRound, closeAll, acceptFails,
      nothingToAccept, acceptClient, hangUp, dropCurrent, recvAgain,
      nothingToRead, recvData, runCommand, commandsDone, notWritable, sendData,
      poll, pollReturns, pollFails, scanning, writing, nextEntry, toWrite

\* A marked client has output, so that it is asked about.
LEMMA MarkedAsked == LoopInv /\ P!IInv /\ AsksWhereOutputWaits => PollAsksForMarked
  BY EntryFacts, ServerAssumption
  DEF LoopInv, LoopTypeOK, P!IInv, P!Sound, AsksWhereOutputWaits, PollAsksForMarked

\* Whenever the loop sleeps in poll, every client marked for disconnection will
\* wake it when its socket becomes writable.
THEOREM MarkedAskedAbout == Spec => []PollAsksForMarked
<1>1. Init => AsksWhereOutputWaits
  BY DEF Init, AsksWhereOutputWaits
<1> QED
  BY <1>1, MarkedAsked, LoopInvariance, ClientsInvariance, AskingNext, PTL DEF Spec

-----------------------------------------------------------------------------
(***************************************************************************)
(* Every connection keeps the promise of Inbox.                            *)
(***************************************************************************)

\* No connection has a command before it exists.
LEMMA InboxInit == Init => \A fd \in Fds : Inbox(fd)!Init
  BY DEF Init, Inbox!Init

\* A step appends to a box that is empty, takes its first command, or leaves
\* it alone; dropping a client clears a box that is empty already.
LEMMA InboxStep ==
  ASSUME LoopInv, [Next]_vars, NEW fd \in Fds
  PROVE  [Inbox(fd)!Next]_(readBuffer[fd])
<1>1. CASE UNCHANGED readBuffer
  BY <1>1
<1>2. ASSUME NEW e \in Fds, dropCurrent(e), pc # "commands"
      PROVE  UNCHANGED readBuffer
  BY <1>2, NothingWaits DEF dropCurrent, LoopInv, LoopTypeOK
<1>3. ASSUME NEW e \in Fds, hangUp(e) PROVE UNCHANGED readBuffer
  BY <1>3, <1>2 DEF hangUp, scanning
<1>4. ASSUME NEW e \in Fds, NEW sent, sendData(e, sent) PROVE UNCHANGED readBuffer
  BY <1>4, <1>2 DEF sendData, writing
<1>5. ASSUME NEW e \in Fds, NEW batch \in Batches, recvData(e, batch)
      PROVE  [Inbox(fd)!Next]_(readBuffer[fd])
  <2>1. readBuffer[e] = <<>> /\ readBuffer \in [Fds -> Seq(Cmds)]
    BY <1>5, NothingWaits DEF recvData, scanning, LoopInv, LoopTypeOK
  <2>2. batch \in Seq(Cmds)
    BY ServerAssumption
  <2>3. readBuffer' = [readBuffer EXCEPT ![e] = batch]
    BY <1>5, <2>1, <2>2, ConcatEmptySeq DEF recvData
  <2>4. CASE e = fd
    BY <2>1, <2>2, <2>3, <2>4 DEF Inbox!Next, Inbox!receiveData
  <2>5. CASE e # fd
    BY <2>1, <2>3, <2>5
  <2> QED
    BY <2>4, <2>5
<1>6. ASSUME NEW e \in Fds, runCommand(e) PROVE [Inbox(fd)!Next]_(readBuffer[fd])
  <2>1. readBuffer \in [Fds -> Seq(Cmds)]
    BY DEF LoopInv, LoopTypeOK
  <2>2. CASE e = fd
    BY <1>6, <2>1, <2>2 DEF runCommand, Inbox!Next, Inbox!processCommand
  <2>3. CASE e # fd
    BY <1>6, <2>1, <2>3 DEF runCommand
  <2> QED
    BY <2>2, <2>3
<1>7. CASE Next
  BY <1>1, <1>3, <1>4, <1>5, <1>6, <1>7
  DEF Next, LoopStep, startRound, leaveLoop, endRound, closeAll, acceptFails,
      nothingToAccept, acceptClient, recvAgain, nothingToRead, commandsDone,
      notWritable, poll, pollReturns, pollFails, signalHandler
<1>8. CASE UNCHANGED vars
  BY <1>1, <1>8 DEF vars, loopVars
<1> QED
  BY <1>7, <1>8

\* Commands run in the order in which they came, all of them before the next
\* read of their connection, and none is lost with a client that is dropped.
THEOREM LoopKeepsInbox == Spec => InboxSpec
<1>1. LoopInv /\ [Next]_vars =>
        [\A fd \in Fds : [Inbox(fd)!Next]_(readBuffer[fd])]_readBuffer
  BY InboxStep
<1> QED
  BY <1>1, LoopInvariance, InboxInit, PTL DEF Spec, InboxSpec

-----------------------------------------------------------------------------
(***************************************************************************)
(* A round comes to its end.                                               *)
(***************************************************************************)

\* What the scan has ahead at its entry is due there.
LEMMA EventDue ==
  ASSUME LoopInv, pc \in {"scan", "commands", "write"}, i <= Len(pollfds),
         NEW ev \in Ahead(i)
  PROVE  <<Entry.fd, ev>> \in due
<1>1. i \in i..Len(pollfds) /\ i \in 1..Len(pollfds)
  BY EntryFacts
<1>2. Entry.fd \in Fds \cup {ServerSocket} /\ ev \in Events
  BY <1>1, EntryFacts DEF Entry, Ahead
<1>3. Owed(Entry.fd, ev)
  BY <1>1 DEF Owed, Entry
<1> QED
  BY <1>2, <1>3 DEF LoopInv, DueIsOwed

\* There are finitely many events to act on, so that they come to an end.
LEMMA DueFinite ==
  ASSUME LoopInv, pc \in {"scan", "commands", "write"}
  PROVE  IsFiniteSet(due)
<1> DEFINE fds == {pollfds[k].fd : k \in 1..Len(pollfds)}
<1>1. Len(pollfds) \in Nat /\ i \in Nat /\ i >= 1
  BY EntryFacts
<1>2. IsFiniteSet(fds)
  <2> DEFINE at == [k \in 1..Len(pollfds) |-> pollfds[k].fd]
  <2>1. at \in Surjection(1..Len(pollfds), fds)
    BY DEF Surjection
  <2>2. IsFiniteSet(1..Len(pollfds))
    BY <1>1, FS_Interval
  <2> HIDE DEF at, fds
  <2> QED
    BY <2>1, <2>2, FS_Surjection
<1>3. IsFiniteSet(Events)
  <2>1. IsFiniteSet({"IN"} \cup {"OUT"})
    BY FS_Singleton, FS_AddElement
  <2>2. Events = {"IN"} \cup {"OUT"}
    BY DEF Events
  <2> QED
    BY <2>1, <2>2
<1>4. IsFiniteSet(fds \X Events)
  BY <1>2, <1>3, FS_Product
<1>5. ASSUME NEW e \in due PROVE e \in fds \X Events
  <2>1. PICK fd \in Fds \cup {ServerSocket}, ev \in Events : e = <<fd, ev>>
    BY DEF LoopInv, LoopTypeOK
  <2>2. PICK k \in i..Len(pollfds) : pollfds[k].fd = fd
    BY <2>1 DEF LoopInv, DueIsOwed, Owed
  <2>3. k \in 1..Len(pollfds)
    BY <1>1
  <2> QED
    BY <2>1, <2>2, <2>3
<1> HIDE DEF fds
<1> QED
  BY <1>4, <1>5, FS_Subset

\* An event that was due and has been acted on makes the round shorter.
LEMMA EventShrinks ==
  ASSUME NEW fd, NEW ev, <<fd, ev>> \in due,
         handled(fd, ev) \/ (ev \in Events /\ due' = due \ ({fd} \X Events))
  PROVE  RoundShrinks
<1>1. due' \subseteq due /\ <<fd, ev>> \notin due'
  BY DEF handled
<1> QED
  BY <1>1 DEF RoundShrinks

\* So does dropping the client under the scan, which had an event.
LEMMA DropShrinks ==
  ASSUME LoopInv, NEW fd \in Fds, dropCurrent(fd), NEW ev \in Ahead(i),
         pc \in {"scan", "write"}, i <= Len(pollfds), Entry.fd = fd
  PROVE  RoundShrinks
<1>1. <<fd, ev>> \in due
  BY EventDue
<1>2. ev \in Events
  BY <1>1 DEF LoopInv, LoopTypeOK
<1> QED
  BY <1>1, <1>2, EventShrinks DEF dropCurrent

\* Passing an entry without an event.
LEMMA PassEntry ==
  ASSUME LoopInv, i <= Len(pollfds), nextEntry, UNCHANGED <<pollfds, due>>
  PROVE  RoundShrinks
<1>1. 0 <= entriesAhead' /\ entriesAhead' < entriesAhead
  BY EntryFacts DEF nextEntry, entriesAhead
<1> QED
  BY <1>1 DEF RoundShrinks

\* Every step of a round but its last makes it shorter.
LEMMA RoundStep ==
  ASSUME LoopInv, LoopStep, pc \in {"scan", "commands", "write"}, ~endRound
  PROVE  RoundShrinks
<1>1. ~startRound /\ ~leaveLoop /\ ~closeAll
  BY DEF startRound, leaveLoop, closeAll
<1>2. CASE acceptFails
  <2>1. scanning(ServerSocket) /\ "IN" \in Entry.revents /\ handled(ServerSocket, "IN")
    BY <1>2 DEF acceptFails
  <2> QED
    BY <2>1, ListenerAhead, EventDue, EventShrinks DEF scanning
<1>3. CASE nothingToAccept
  BY <1>3, PassEntry DEF nothingToAccept, scanning
<1>4. ASSUME NEW fd \in Fds, acceptClient(fd)
      PROVE  RoundShrinks
  <2>1. scanning(ServerSocket) /\ "IN" \in Entry.revents /\ handled(ServerSocket, "IN")
    BY <1>4 DEF acceptClient
  <2> QED
    BY <2>1, ListenerAhead, EventDue, EventShrinks DEF scanning
<1>5. ASSUME NEW fd \in Fds, scanning(fd), "IN" \in Entry.revents
      PROVE  "IN" \in Ahead(i) /\ <<fd, "IN">> \in due
  <2>1. "IN" \in Ahead(i) /\ i <= Len(pollfds) /\ Entry.fd = fd
    BY <1>5 DEF scanning, Ahead, Entry
  <2> QED
    BY <2>1, EventDue
<1>6. ASSUME NEW fd \in Fds, hangUp(fd)
      PROVE  RoundShrinks
  BY <1>5, <1>6, DropShrinks DEF hangUp, scanning
<1>7. ASSUME NEW fd \in Fds, recvAgain(fd)
      PROVE  RoundShrinks
  BY <1>5, <1>7, EventShrinks DEF recvAgain
<1>8. ASSUME NEW fd \in Fds, NEW batch, recvData(fd, batch)
      PROVE  RoundShrinks
  BY <1>5, <1>8, EventShrinks DEF recvData
<1>9. ASSUME NEW fd \in Fds, nothingToRead(fd) \/ commandsDone(fd)
      PROVE  RoundShrinks
  <2>1. /\ due' = due /\ entriesAhead' = entriesAhead
        /\ pc \in {"scan", "commands"} /\ pc' = "write"
    BY <1>9 DEF nothingToRead, commandsDone, scanning, toWrite, entriesAhead
  <2>2. stage' < stage
    BY <2>1 DEF stage
  <2> QED
    BY <2>1, <2>2 DEF RoundShrinks
<1>10. ASSUME NEW fd \in Fds, runCommand(fd)
       PROVE  RoundShrinks
  <2>1. /\ due' = due /\ entriesAhead' = entriesAhead /\ stage' = stage
        /\ Entry' = Entry /\ Entry.fd = fd
    BY <1>10 DEF runCommand, entriesAhead, stage, Entry
  <2>2. /\ readBuffer \in [Fds -> Seq(Cmds)] /\ readBuffer[fd] # <<>>
        /\ readBuffer'[fd] = Tail(readBuffer[fd])
    BY <1>10 DEF runCommand, LoopInv, LoopTypeOK
  <2>3. Len(readBuffer'[fd]) = Len(readBuffer[fd]) - 1 /\ Len(readBuffer[fd]) \in Nat
    BY <2>2, HeadTailProperties
  <2>4. commandsAhead' < commandsAhead
    BY <2>1, <2>3 DEF commandsAhead
  <2> QED
    BY <2>1, <2>4 DEF RoundShrinks
<1>11. ASSUME NEW fd \in Fds, notWritable(fd)
       PROVE  RoundShrinks
  BY <1>11, WriteAhead, PassEntry DEF notWritable
<1>12. ASSUME NEW fd \in Fds, NEW sent, sendData(fd, sent)
       PROVE  RoundShrinks
  <2>1. /\ i <= Len(pollfds) /\ "OUT" \in Ahead(i)
        /\ Entry.fd = fd /\ pc = "write"
    BY <1>12, WriteAhead DEF sendData, writing
  <2>2. <<fd, "OUT">> \in due
    BY <2>1, EventDue
  <2>3. dropCurrent(fd) \/ handled(fd, "OUT")
    BY <1>12 DEF sendData
  <2>4. CASE dropCurrent(fd)
    BY <2>1, <2>4, DropShrinks
  <2>5. CASE handled(fd, "OUT")
    BY <2>2, <2>5, EventShrinks
  <2> QED
    BY <2>3, <2>4, <2>5
<1> QED
  BY <1>1, <1>2, <1>3, <1>4, <1>6, <1>7, <1>8, <1>9, <1>10, <1>11, <1>12 DEF LoopStep

\* The quantity that makes RoundEnds true: in any round, with any number of
\* clients coming and going under the scan, each step acts on an event that poll
\* reported, or leaves the events as they are and less of the vector, of the
\* entry or of the commands ahead (runServer, with the i-- of a dropped client).
\* The events are finitely many, so that this cannot go on for ever.
THEOREM RoundsProgress ==
  Spec => RoundProgress /\ [](pc \in {"scan", "commands", "write"} => IsFiniteSet(due))
<1>1. LoopInv /\ [Next]_vars =>
        [(/\ pc \in {"scan", "commands", "write"}
          /\ LoopStep
          /\ ~endRound)
          => RoundShrinks]_vars
  BY RoundStep
<1>2. LoopInv => (pc \in {"scan", "commands", "write"} => IsFiniteSet(due))
  BY DueFinite
<1> QED
  BY <1>1, <1>2, LoopInvariance, PTL DEF Spec, RoundProgress
=============================================================================
