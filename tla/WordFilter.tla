----------------------------- MODULE WordFilter -----------------------------
(***************************************************************************)
(* The mutes of src/WordFilter.cpp, as operators on m_mutes: a function    *)
(* from the keys of the muted players to the time the mute ends and the    *)
(* time of the last notice.  Each member function holds m_mute_mutex for   *)
(* its whole body.  The clock does not move while one chat hook runs.      *)
(***************************************************************************)
EXTENDS Naturals

(* Mutant: the last instant still counts.                                  *)
IsMutedInclusive(mutes, key, now) == key \in DOMAIN mutes /\ now <= mutes[key].until

(* IsMuted.                                                                *)
IsMuted(mutes, key, now) == key \in DOMAIN mutes /\ now < mutes[key].until

(* Every lookup erases the entry it finds expired (FindActiveMuteLocked).  *)
Swept(mutes, key, now) ==
  [k \in {k \in DOMAIN mutes : k # key \/ IsMuted(mutes, key, now)} |-> mutes[k]]

(* Mute: no entry for MuteMinutes = 0; the notice of the hit counts.       *)
Mute(mutes, key, now, duration) ==
  IF duration = 0 THEN mutes
  ELSE [k \in DOMAIN mutes \cup {key} |->
          IF k = key THEN [until |-> now + duration, notified |-> now] ELSE mutes[k]]

(* TryConsumeMuteNotify: whether a notice is due, and what it leaves.      *)
NoticeDue(mutes, key, now, interval) ==
  IsMuted(mutes, key, now) /\ now - mutes[key].notified >= interval

(* Mutant: the time of a notice is not kept.                               *)
NoticeForgotten(mutes, key, now, interval) == mutes

AfterNotice(mutes, key, now, interval) ==
  IF NoticeDue(mutes, key, now, interval)
  THEN [mutes EXCEPT ![key].notified = now] ELSE mutes
=============================================================================
