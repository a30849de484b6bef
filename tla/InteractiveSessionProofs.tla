---------------------- MODULE InteractiveSessionProofs ----------------------
(***************************************************************************)
(* Safety of the interactive-session lease for any number of callers,      *)
(* processes, pids, markers and lease tokens.                              *)
(***************************************************************************)
EXTENDS InteractiveSession, TLAPS

\* A token is issued exactly when its directory is at the lease path or in
\* its own retirement proof, never in both.
Generations ==
  /\ \A t \in Token : owner[t] # None <=> (lock = t \/ retired[t] # None)
  /\ lock # None => retired[lock] = None

\* Identities are never handed out twice and owners are former processes.
Identities ==
  /\ \A h \in Host : id[h] # None => id[h] \in born
  /\ \A t \in Token : owner[t] # None => owner[t] \in born
  /\ \A g, h \in Host : id[g] # None /\ id[g] = id[h] => g = h
  /\ \A c \in Caller : pc[c] = "dead" <=> id[HostOf[c]] = None

\* Which call a caller can be inside at each place.
Places ==
  \A c \in Caller :
    /\ pc[c] \in {"enter", "look", "observe", "publish", "held"} => use[c] = "acquire"
    /\ pc[c] \in Resting \cup {"dead"} => use[c] = "acquire"
    /\ pc[c] \in {"prove", "rename", "verify"} => use[c] \in {"stale", "cancel", "release"}

\* A caller with a lease to give back finds it at the path, under its own name.
Holders ==
  /\ \A c \in Caller : Holding(c) => /\ target[c] \in Token
                                     /\ lock = target[c]
                                     /\ owner[target[c]] = id[HostOf[c]]
                                     /\ pc[c] \in {"meta", "check"} => dir[c] = target[c]
  /\ \A c, d \in Caller : Holding(c) /\ Holding(d) => c = d

\* A caller about to retire a lease as stale names one whose owner is gone.
Movers ==
  \A c \in Caller :
    /\ pc[c] = "observe" => target[c] \in Issued
    /\ use[c] = "stale" => target[c] \in Issued /\ owner[target[c]] \notin Live
    /\ pc[c] = "verify" => target[c] \in Token /\ retired[target[c]] = target[c]

\* owner.json read from another directory means the first one was retired.
Readers ==
  \A c \in Caller :
    /\ pc[c] \in {"meta", "check"} => dir[c] \in Issued
    /\ pc[c] = "check" => meta[c] \in Issued \cup {None}
    /\ pc[c] = "check" /\ meta[c] # dir[c] => retired[dir[c]] # None

IInv == /\ TypeOK
        /\ Generations
        /\ Identities
        /\ Places
        /\ Holders
        /\ Movers
        /\ Readers
        /\ ProofsMatch
        /\ NoFalseFailure
-----------------------------------------------------------------------------
USE HostOfAssumption, NoneAssumption

LEMMA InitEstablishes == Init => IInv
BY DEF Init, IInv, TypeOK, Generations, Identities, Places, Holders, Movers,
       Readers, ProofsMatch, NoFalseFailure, Holding, Issued, Live, PC, Use,
       Resting, Failed

LEMMA BeginPreserves ==
  ASSUME NEW c \in Caller, IInv, Begin(c)
  PROVE  IInv'
<1> USE DEF IInv, Begin, GoTo, Call, Files, Processes, local
<1>1. TypeOK'
  BY DEF TypeOK, PC, Use, Resting, Failed
<1>2. Generations'
  BY DEF Generations, TypeOK
<1>3. Identities'
  BY DEF Identities, TypeOK, Live, Resting
<1>4. Places'
  BY DEF Places, TypeOK, Resting, Failed
<1>5. Holders'
  BY DEF Holders, TypeOK, Generations, Identities, Places, Movers, Readers, Holding, Live, Resting, Failed, Issued
<1>6. Movers'
  BY DEF Movers, TypeOK, Generations, Identities, Places, Readers, Holders, Issued, Live, Resting, Failed, Holding
<1>7. Readers'
  BY DEF Readers, TypeOK, Generations, Places, Issued, Resting, Failed
<1>8. ProofsMatch'
  BY DEF ProofsMatch, TypeOK, Movers, Generations, Holders, Places, Issued, Holding
<1>9. NoFalseFailure'
  BY DEF NoFalseFailure, TypeOK, Failed, Resting, Places, Holders, Movers, Readers, Generations, Holding, Issued
<1>10. QED
  BY <1>1, <1>2, <1>3, <1>4, <1>5, <1>6, <1>7, <1>8, <1>9

LEMMA AbortPreserves ==
  ASSUME NEW c \in Caller, IInv, Abort(c)
  PROVE  IInv'
<1> USE DEF IInv, Abort, GoTo, Call, Files, Processes, local, Waiting
<1>1. TypeOK'
  BY DEF TypeOK, PC, Use, Resting, Failed
<1>2. Generations'
  BY DEF Generations, TypeOK
<1>3. Identities'
  BY DEF Identities, TypeOK, Live
<1>4. Places'
  BY DEF Places, TypeOK, Resting, Failed
<1>5. Holders'
  BY DEF Holders, TypeOK, Generations, Identities, Places, Movers, Readers, Holding, Live, Resting, Failed, Issued
<1>6. Movers'
  BY DEF Movers, TypeOK, Generations, Identities, Places, Readers, Holders, Issued, Live, Resting, Failed, Holding
<1>7. Readers'
  BY DEF Readers, TypeOK, Generations, Places, Issued, Resting, Failed
<1>8. ProofsMatch'
  BY DEF ProofsMatch, TypeOK, Movers, Generations, Holders, Places, Issued, Holding
<1>9. NoFalseFailure'
  BY DEF NoFalseFailure, TypeOK, Failed, Resting, Places, Holders, Movers, Readers, Generations, Holding, Issued
<1>10. QED
  BY <1>1, <1>2, <1>3, <1>4, <1>5, <1>6, <1>7, <1>8, <1>9

LEMMA LookPreserves ==
  ASSUME NEW c \in Caller, IInv, Look(c)
  PROVE  IInv'
<1> USE DEF IInv, Look, GoTo, Call, Files, Processes, local
<1>1. TypeOK'
  BY DEF TypeOK, PC, Use, Resting, Failed
<1>2. Generations'
  BY DEF Generations, TypeOK
<1>3. Identities'
  BY DEF Identities, TypeOK, Live
<1>4. Places'
  BY DEF Places, TypeOK, Resting, Failed
<1>5. Holders'
  BY DEF Holders, TypeOK, Generations, Identities, Places, Movers, Readers, Holding, Live, Resting, Failed, Issued
<1>6. Movers'
  BY DEF Movers, TypeOK, Generations, Identities, Places, Readers, Holders, Issued, Live, Resting, Failed, Holding
<1>7. Readers'
  BY DEF Readers, TypeOK, Generations, Places, Issued, Resting, Failed
<1>8. ProofsMatch'
  BY DEF ProofsMatch, TypeOK, Movers, Generations, Holders, Places, Issued, Holding
<1>9. NoFalseFailure'
  BY DEF NoFalseFailure, TypeOK, Failed, Resting, Places, Holders, Movers, Readers, Generations, Holding, Issued
<1>10. QED
  BY <1>1, <1>2, <1>3, <1>4, <1>5, <1>6, <1>7, <1>8, <1>9

LEMMA TimeOutPreserves ==
  ASSUME NEW c \in Caller, IInv, TimeOut(c)
  PROVE  IInv'
<1> USE DEF IInv, TimeOut, GoTo, Call, Files, Processes, local
<1>1. TypeOK'
  BY DEF TypeOK, PC, Use, Resting, Failed
<1>2. Generations'
  BY DEF Generations, TypeOK
<1>3. Identities'
  BY DEF Identities, TypeOK, Live
<1>4. Places'
  BY DEF Places, TypeOK, Resting, Failed
<1>5. Holders'
  BY DEF Holders, TypeOK, Generations, Identities, Places, Movers, Readers, Holding, Live, Resting, Failed, Issued
<1>6. Movers'
  BY DEF Movers, TypeOK, Generations, Identities, Places, Readers, Holders, Issued, Live, Resting, Failed, Holding
<1>7. Readers'
  BY DEF Readers, TypeOK, Generations, Places, Issued, Resting, Failed
<1>8. ProofsMatch'
  BY DEF ProofsMatch, TypeOK, Movers, Generations, Holders, Places, Issued, Holding
<1>9. NoFalseFailure'
  BY DEF NoFalseFailure, TypeOK, Failed, Resting, Places, Holders, Movers, Readers, Generations, Holding, Issued
<1>10. QED
  BY <1>1, <1>2, <1>3, <1>4, <1>5, <1>6, <1>7, <1>8, <1>9

LEMMA ObservePreserves ==
  ASSUME NEW c \in Caller, NEW known \in BOOLEAN, IInv, Observe(c, known)
  PROVE  IInv'
<1> USE DEF IInv, Observe, GoTo, Call, Files, Processes, local, Stale
<1>1. TypeOK'
  BY DEF TypeOK, PC, Use, Resting, Failed
<1>2. Generations'
  BY DEF Generations, TypeOK
<1>3. Identities'
  BY DEF Identities, TypeOK, Live
<1>4. Places'
  BY DEF Places, TypeOK, Resting, Failed
<1>5. Holders'
  BY DEF Holders, TypeOK, Generations, Identities, Places, Movers, Readers, Holding, Live, Resting, Failed, Issued
<1>6. Movers'
  BY DEF Movers, TypeOK, Generations, Identities, Places, Readers, Holders, Issued, Live, Resting, Failed, Holding
<1>7. Readers'
  BY DEF Readers, TypeOK, Generations, Places, Issued, Resting, Failed
<1>8. ProofsMatch'
  BY DEF ProofsMatch, TypeOK, Movers, Generations, Holders, Places, Issued, Holding
<1>9. NoFalseFailure'
  BY DEF NoFalseFailure, TypeOK, Failed, Resting, Places, Holders, Movers, Readers, Generations, Holding, Issued
<1>10. QED
  BY <1>1, <1>2, <1>3, <1>4, <1>5, <1>6, <1>7, <1>8, <1>9

LEMMA PublishPreserves ==
  ASSUME NEW c \in Caller, NEW t \in Token, IInv, Publish(c, t)
  PROVE  IInv'
<1> USE DEF IInv, Publish, GoTo, Call, Files, Processes, local, Issued
<1>1. TypeOK'
  <2>1. CASE lock = None
    <3>1. id[HostOf[c]] \in Identity \cup {None}
      BY DEF TypeOK
    <3>2. owner' \in [Token -> Identity \cup {None}]
      BY <2>1, <3>1 DEF TypeOK
    <3>3. lock' \in Token \cup {None} /\ target' \in [Caller -> Token \cup {None}]
      BY <2>1 DEF TypeOK
    <3>4. pc' \in [Caller -> PC] /\ use' \in [Caller -> Use] /\ signal' \in [Caller -> BOOLEAN]
      BY <2>1 DEF TypeOK, PC, Use
    <3>5. QED
      BY <3>2, <3>3, <3>4 DEF TypeOK
  <2>2. CASE lock # None
    BY <2>2 DEF TypeOK, PC
  <2>3. QED
    BY <2>1, <2>2
<1>2. Generations'
  BY DEF Generations, TypeOK, Identities
<1>3. Identities'
  BY DEF Identities, TypeOK, Live
<1>4. Places'
  BY DEF Places, TypeOK, Resting, Failed
<1>5. Holders'
  BY DEF Holders, TypeOK, Generations, Identities, Places, Movers, Readers, Holding, Live, Resting, Failed, Issued
<1>6. Movers'
  BY DEF Movers, TypeOK, Generations, Identities, Places, Readers, Holders, Issued, Live, Resting, Failed, Holding
<1>7. Readers'
  BY DEF Readers, TypeOK, Generations, Places, Issued, Resting, Failed
<1>8. ProofsMatch'
  BY DEF ProofsMatch, TypeOK, Movers, Generations, Holders, Places, Issued, Holding
<1>9. NoFalseFailure'
  BY DEF NoFalseFailure, TypeOK, Failed, Resting, Places, Holders, Movers, Readers, Generations, Holding, Issued
<1>10. QED
  BY <1>1, <1>2, <1>3, <1>4, <1>5, <1>6, <1>7, <1>8, <1>9

LEMMA ReleasePreserves ==
  ASSUME NEW c \in Caller, IInv, Release(c)
  PROVE  IInv'
<1> USE DEF IInv, Release, GoTo, Call, Files, Processes, local
<1>1. TypeOK'
  BY DEF TypeOK, PC, Use, Resting, Failed
<1>2. Generations'
  BY DEF Generations, TypeOK
<1>3. Identities'
  BY DEF Identities, TypeOK, Live
<1>4. Places'
  BY DEF Places, TypeOK, Resting, Failed
<1>5. Holders'
  BY DEF Holders, TypeOK, Generations, Identities, Places, Movers, Readers, Holding, Live, Resting, Failed, Issued
<1>6. Movers'
  BY DEF Movers, TypeOK, Generations, Identities, Places, Readers, Holders, Issued, Live, Resting, Failed, Holding
<1>7. Readers'
  BY DEF Readers, TypeOK, Generations, Places, Issued, Resting, Failed
<1>8. ProofsMatch'
  BY DEF ProofsMatch, TypeOK, Movers, Generations, Holders, Places, Issued, Holding
<1>9. NoFalseFailure'
  BY DEF NoFalseFailure, TypeOK, Failed, Resting, Places, Holders, Movers, Readers, Generations, Holding, Issued
<1>10. QED
  BY <1>1, <1>2, <1>3, <1>4, <1>5, <1>6, <1>7, <1>8, <1>9

LEMMA ReadDirectoryPreserves ==
  ASSUME NEW c \in Caller, IInv, ReadDirectory(c)
  PROVE  IInv'
<1> USE DEF IInv, ReadDirectory, GoTo, Call, Files, Processes, local, ReadDone, MoveDone
<1>1. TypeOK'
  BY DEF TypeOK, PC, Use, Resting, Failed
<1>2. Generations'
  BY DEF Generations, TypeOK
<1>3. Identities'
  BY DEF Identities, TypeOK, Live
<1>4. Places'
  BY DEF Places, TypeOK, Resting, Failed
<1>5. Holders'
  BY DEF Holders, TypeOK, Generations, Identities, Places, Movers, Readers, Holding, Live, Resting, Failed, Issued
<1>6. Movers'
  BY DEF Movers, TypeOK, Generations, Identities, Places, Readers, Holders, Issued, Live, Resting, Failed, Holding
<1>7. Readers'
  BY DEF Readers, TypeOK, Generations, Places, Issued, Resting, Failed
<1>8. ProofsMatch'
  BY DEF ProofsMatch, TypeOK, Movers, Generations, Holders, Places, Issued, Holding
<1>9. NoFalseFailure'
  BY DEF NoFalseFailure, TypeOK, Failed, Resting, Places, Holders, Movers, Readers, Generations, Holding, Issued
<1>10. QED
  BY <1>1, <1>2, <1>3, <1>4, <1>5, <1>6, <1>7, <1>8, <1>9

LEMMA ReadMetadataPreserves ==
  ASSUME NEW c \in Caller, IInv, ReadMetadata(c)
  PROVE  IInv'
<1> USE DEF IInv, ReadMetadata, GoTo, Call, Files, Processes, local
<1>1. TypeOK'
  BY DEF TypeOK, PC, Use, Resting, Failed
<1>2. Generations'
  BY DEF Generations, TypeOK
<1>3. Identities'
  BY DEF Identities, TypeOK, Live
<1>4. Places'
  BY DEF Places, TypeOK, Resting, Failed
<1>5. Holders'
  BY DEF Holders, TypeOK, Generations, Identities, Places, Movers, Readers, Holding, Live, Resting, Failed, Issued
<1>6. Movers'
  BY DEF Movers, TypeOK, Generations, Identities, Places, Readers, Holders, Issued, Live, Resting, Failed, Holding
<1>7. Readers'
  BY DEF Readers, TypeOK, Generations, Places, Issued, Resting, Failed
<1>8. ProofsMatch'
  BY DEF ProofsMatch, TypeOK, Movers, Generations, Holders, Places, Issued, Holding
<1>9. NoFalseFailure'
  BY DEF NoFalseFailure, TypeOK, Failed, Resting, Places, Holders, Movers, Readers, Generations, Holding, Issued
<1>10. QED
  BY <1>1, <1>2, <1>3, <1>4, <1>5, <1>6, <1>7, <1>8, <1>9

LEMMA CheckGenerationPreserves ==
  ASSUME NEW c \in Caller, IInv, CheckGeneration(c)
  PROVE  IInv'
<1> USE DEF IInv, CheckGeneration, GoTo, Call, Files, Processes, local, ReadDone, MoveDone
<1>1. TypeOK'
  BY DEF TypeOK, PC, Use, Resting, Failed
<1>2. Generations'
  BY DEF Generations, TypeOK
<1>3. Identities'
  BY DEF Identities, TypeOK, Live
<1>4. Places'
  BY DEF Places, TypeOK, Resting, Failed
<1>5. Holders'
  BY DEF Holders, TypeOK, Generations, Identities, Places, Movers, Readers, Holding, Live, Resting, Failed, Issued
<1>6. Movers'
  BY DEF Movers, TypeOK, Generations, Identities, Places, Readers, Holders, Issued, Live, Resting, Failed, Holding
<1>7. Readers'
  BY DEF Readers, TypeOK, Generations, Places, Issued, Resting, Failed
<1>8. ProofsMatch'
  BY DEF ProofsMatch, TypeOK, Movers, Generations, Holders, Places, Issued, Holding
<1>9. NoFalseFailure'
  BY DEF NoFalseFailure, TypeOK, Failed, Resting, Places, Holders, Movers, Readers, Generations, Holding, Issued
<1>10. QED
  BY <1>1, <1>2, <1>3, <1>4, <1>5, <1>6, <1>7, <1>8, <1>9

LEMMA CheckProofPreserves ==
  ASSUME NEW c \in Caller, IInv, CheckProof(c)
  PROVE  IInv'
<1> USE DEF IInv, CheckProof, GoTo, Call, Files, Processes, local, MoveDone
<1>1. TypeOK'
  BY DEF TypeOK, PC, Use, Resting, Failed, Places
<1>2. Generations'
  BY DEF Generations, TypeOK
<1>3. Identities'
  BY DEF Identities, TypeOK, Live, Places
<1>4. Places'
  BY DEF Places, TypeOK, Resting, Failed
<1>5. Holders'
  BY DEF Holders, TypeOK, Generations, Identities, Places, Movers, Readers, Holding, Live, Resting, Failed, Issued
<1>6. Movers'
  BY DEF Movers, TypeOK, Generations, Identities, Places, Readers, Holders, Issued, Live, Resting, Failed, Holding
<1>7. Readers'
  BY DEF Readers, TypeOK, Generations, Places, Issued, Resting, Failed
<1>8. ProofsMatch'
  BY DEF ProofsMatch, TypeOK, Movers, Generations, Holders, Places, Issued, Holding
<1>9. NoFalseFailure'
  BY DEF NoFalseFailure, TypeOK, Failed, Resting, Places, Holders, Movers, Readers, Generations, Holding, Issued
<1>10. QED
  BY <1>1, <1>2, <1>3, <1>4, <1>5, <1>6, <1>7, <1>8, <1>9

LEMMA RenameToProofPreserves ==
  ASSUME NEW c \in Caller, IInv, RenameToProof(c)
  PROVE  IInv'
<1> USE DEF IInv, RenameToProof, GoTo, Call, Files, Processes, local, MoveDone, ProofFree
<1>1. TypeOK'
  BY DEF TypeOK, PC, Use, Resting, Failed, Places
<1>2. Generations'
  BY DEF Generations, TypeOK, Movers, Holders, Issued, Holding, Places
<1>3. Identities'
  BY DEF Identities, TypeOK, Live, Places
<1>4. Places'
  BY DEF Places, TypeOK, Resting, Failed
<1>5. Holders'
  BY DEF Holders, TypeOK, Generations, Identities, Places, Movers, Readers, Holding, Live, Resting, Failed, Issued
<1>6. Movers'
  BY DEF Movers, TypeOK, Generations, Identities, Places, Readers, Holders, Issued, Live, Resting, Failed, Holding
<1>7. Readers'
  BY DEF Readers, TypeOK, Generations, Places, Issued, Resting, Failed
<1>8. ProofsMatch'
  BY DEF ProofsMatch, TypeOK, Movers, Generations, Holders, Places, Issued, Holding
<1>9. NoFalseFailure'
  BY DEF NoFalseFailure, TypeOK, Failed, Resting, Places, Holders, Movers, Readers, Generations, Holding, Issued
<1>10. QED
  BY <1>1, <1>2, <1>3, <1>4, <1>5, <1>6, <1>7, <1>8, <1>9

LEMMA VerifyProofPreserves ==
  ASSUME NEW c \in Caller, IInv, VerifyProof(c)
  PROVE  IInv'
<1> USE DEF IInv, VerifyProof, GoTo, Call, Files, Processes, local, MoveDone
<1>1. TypeOK'
  BY DEF TypeOK, PC, Use, Resting, Failed, Places
<1>2. Generations'
  BY DEF Generations, TypeOK
<1>3. Identities'
  BY DEF Identities, TypeOK, Live, Places
<1>4. Places'
  BY DEF Places, TypeOK, Resting, Failed
<1>5. Holders'
  BY DEF Holders, TypeOK, Generations, Identities, Places, Movers, Readers, Holding, Live, Resting, Failed, Issued
<1>6. Movers'
  BY DEF Movers, TypeOK, Generations, Identities, Places, Readers, Holders, Issued, Live, Resting, Failed, Holding
<1>7. Readers'
  BY DEF Readers, TypeOK, Generations, Places, Issued, Resting, Failed
<1>8. ProofsMatch'
  BY DEF ProofsMatch, TypeOK, Movers, Generations, Holders, Places, Issued, Holding
<1>9. NoFalseFailure'
  BY DEF NoFalseFailure, TypeOK, Failed, Resting, Places, Holders, Movers, Readers, Generations, Holding, Issued
<1>10. QED
  BY <1>1, <1>2, <1>3, <1>4, <1>5, <1>6, <1>7, <1>8, <1>9

LEMMA CrashPreserves ==
  ASSUME NEW h \in Host, IInv, Crash(h)
  PROVE  IInv'
<1> USE DEF IInv, Crash, GoTo, Call, Files, Processes, local
<1>1. TypeOK'
  BY DEF TypeOK, PC, Use, Resting, Failed
<1>2. Generations'
  BY DEF Generations, TypeOK
<1>3. Identities'
  BY DEF Identities, TypeOK, Live
<1>4. Places'
  BY DEF Places, TypeOK, Resting, Failed
<1>5. Holders'
  BY DEF Holders, TypeOK, Generations, Identities, Places, Movers, Readers, Holding, Live, Resting, Failed, Issued
<1>6. Movers'
  BY DEF Movers, TypeOK, Generations, Identities, Places, Readers, Holders, Issued, Live, Resting, Failed, Holding
<1>7. Readers'
  BY DEF Readers, TypeOK, Generations, Places, Issued, Resting, Failed
<1>8. ProofsMatch'
  BY DEF ProofsMatch, TypeOK, Movers, Generations, Holders, Places, Issued, Holding
<1>9. NoFalseFailure'
  BY DEF NoFalseFailure, TypeOK, Failed, Resting, Places, Holders, Movers, Readers, Generations, Holding, Issued
<1>10. QED
  BY <1>1, <1>2, <1>3, <1>4, <1>5, <1>6, <1>7, <1>8, <1>9

LEMMA BootPreserves ==
  ASSUME NEW h \in Host, NEW i \in Identity, IInv, Boot(h, i)
  PROVE  IInv'
<1> USE DEF IInv, Boot, GoTo, Call, Files, Processes, local
<1>1. TypeOK'
  BY DEF TypeOK, PC, Use, Resting, Failed
<1>2. Generations'
  BY DEF Generations, TypeOK
<1>3. Identities'
  BY DEF Identities, TypeOK, Live
<1>4. Places'
  BY DEF Places, TypeOK, Resting, Failed, Identities
<1>5. Holders'
  BY DEF Holders, TypeOK, Generations, Identities, Places, Movers, Readers, Holding, Live, Resting, Failed, Issued
<1>6. Movers'
  BY DEF Movers, TypeOK, Generations, Identities, Places, Readers, Holders, Issued, Live, Resting, Failed, Holding
<1>7. Readers'
  BY DEF Readers, TypeOK, Generations, Places, Issued, Resting, Failed
<1>8. ProofsMatch'
  BY DEF ProofsMatch, TypeOK, Movers, Generations, Holders, Places, Issued, Holding
<1>9. NoFalseFailure'
  BY DEF NoFalseFailure, TypeOK, Failed, Resting, Places, Holders, Movers, Readers, Generations, Holding, Issued
<1>10. QED
  BY <1>1, <1>2, <1>3, <1>4, <1>5, <1>6, <1>7, <1>8, <1>9

LEMMA StutterPreserves == IInv /\ UNCHANGED vars => IInv'
BY DEF IInv, vars, local, TypeOK, Generations, Identities, Places, Holders, Movers,
       Readers, ProofsMatch, NoFalseFailure, Holding, Issued, Live

LEMMA NextPreserves == IInv /\ [Next]_vars => IInv'
<1> SUFFICES ASSUME IInv, [Next]_vars PROVE IInv'
  OBVIOUS
<1>1. ASSUME NEW c \in Caller, Step(c) PROVE IInv'
  BY <1>1, LookPreserves, ReadDirectoryPreserves, ReadMetadataPreserves,
     CheckGenerationPreserves, CheckProofPreserves, RenameToProofPreserves,
     VerifyProofPreserves, PublishPreserves, ObservePreserves DEF Step
<1>2. ASSUME NEW c \in Caller,
             Begin(c) \/ Abort(c) \/ TimeOut(c) \/ Release(c)
      PROVE  IInv'
  BY <1>2, BeginPreserves, AbortPreserves, TimeOutPreserves, ReleasePreserves
<1>3. ASSUME NEW h \in Host, Crash(h) \/ \E i \in Identity : Boot(h, i)
      PROVE  IInv'
  BY <1>3, CrashPreserves, BootPreserves
<1>4. QED
  BY <1>1, <1>2, <1>3, StutterPreserves DEF Next

\* The strengthened invariant holds in every reachable state.
THEOREM Invariance == Spec => []IInv
<1>1. Init => IInv
  BY InitEstablishes
<1>2. IInv /\ [Next]_vars => IInv'
  BY NextPreserves
<1>3. QED
  BY <1>1, <1>2, PTL DEF Spec

\* Every variable keeps its type, for any set of processes and tokens.
THEOREM TypeCorrect == Spec => []TypeOK
<1>1. IInv => TypeOK
  BY DEF IInv
<1>2. QED
  BY <1>1, Invariance, PTL

\* No contender ever takes the lease of an owner that is still running.
THEOREM OwnerKeepsLease == Spec => []HolderKeepsLease
<1>1. IInv => HolderKeepsLease
  BY DEF IInv, Holders, HolderKeepsLease
<1>2. QED
  BY <1>1, Invariance, PTL

\* The lease is exclusive: two callers never both hold it.
THEOREM Exclusion == Spec => []MutualExclusion
<1>1. IInv => MutualExclusion
  BY DEF IInv, Holders, Holding, MutualExclusion
<1>2. QED
  BY <1>1, Invariance, PTL

\* A retirement proof always holds the generation in its name.
THEOREM ProofsAreFaithful == Spec => []ProofsMatch
<1>1. IInv => ProofsMatch
  BY DEF IInv
<1>2. QED
  BY <1>1, Invariance, PTL

\* No healthy caller ever sees corruptLease or notOwner.
THEOREM HealthyCallsSucceed == Spec => []NoFalseFailure
<1>1. IInv => NoFalseFailure
  BY DEF IInv
<1>2. QED
  BY <1>1, Invariance, PTL

-----------------------------------------------------------------------------
(* The files implement ExclusiveLease.                                     *)

Spent == {t \in Token : retired[t] # None}
Asked == {target[c] : c \in {d \in Caller : Holding(d) /\ pc[d] # "held"}}
Gone == {t \in Issued : owner[t] \notin Live}

\* Only the lease at the path can be on its way back.
LEMMA AskedIsCurrent == IInv => /\ Asked \subseteq {lock}
                                /\ lock = None => Asked = {}
BY DEF IInv, Holders, Asked

\* A step that leaves files and processes alone is a step of Ask.
LEMMA QuietStep ==
  ASSUME IInv', UNCHANGED <<Files, Processes>>
  PROVE  Abstract!Ask
<1>1. lock' = lock /\ Spent' = Spent /\ Gone' = Gone
  BY DEF Files, Processes, Spent, Gone, Issued, Live
<1>2. Asked' \subseteq {lock'}
  BY DEF IInv, Holders, Asked
<1>3. QED
  BY <1>1, <1>2 DEF Abstract!Ask, Spent, Gone, Asked

LEMMA PublishRefines ==
  ASSUME IInv, IInv', NEW c \in Caller, NEW t \in Token, Publish(c, t)
  PROVE  Abstract!Next
<1>1. CASE lock # None
  <2>1. UNCHANGED <<Files, Processes>>
    BY <1>1 DEF Publish, Files, Processes
  <2>2. QED
    BY <2>1, QuietStep DEF Abstract!Next
<1>2. CASE lock = None
  <2>1. lock' = t /\ t \notin Issued /\ UNCHANGED retired /\ Live' = Live
    BY <1>2 DEF Publish, Processes, Live
  <2>2. t \notin Spent /\ Spent' = Spent
    BY <2>1 DEF Spent, IInv, Generations, Issued
  <2>3. Gone' = Gone
    <3>1. id[HostOf[c]] \in Live /\ owner' = [owner EXCEPT ![t] = id[HostOf[c]]]
      BY <1>2 DEF Publish, IInv, Identities, Live
    <3>2. QED
      BY <2>1, <3>1 DEF Gone, Issued, IInv, TypeOK
  <2>4. Asked' \subseteq Asked \cup {t}
    BY <2>1 DEF IInv, Holders, Asked
  <2>5. Abstract!Grant(t)
    BY <1>2, <2>1, <2>2, <2>3, <2>4 DEF Abstract!Grant, Spent, Gone, Asked
  <2>6. QED
    BY <2>5 DEF Abstract!Next
<1>3. QED
  BY <1>1, <1>2

LEMMA RenameRefines ==
  ASSUME IInv, IInv', NEW c \in Caller, RenameToProof(c)
  PROVE  Abstract!Next
<1>1. CASE ~(lock # None /\ ProofFree(target[c]))
  <2>1. UNCHANGED <<Files, Processes>>
    BY <1>1 DEF RenameToProof, Files, Processes
  <2>2. QED
    BY <2>1, QuietStep DEF Abstract!Next
<1>2. CASE lock # None /\ ProofFree(target[c])
  <2>1. /\ lock' = None
        /\ retired' = [retired EXCEPT ![target[c]] = lock]
        /\ Gone' = Gone
    BY <1>2 DEF RenameToProof, Processes, Gone, Issued, Live
  <2>2. target[c] = lock /\ lock \in Asked \cup Gone
    <3>1. use[c] \in {"stale", "cancel", "release"} /\ pc[c] = "rename"
      BY DEF IInv, Places, RenameToProof
    <3>2. CASE use[c] = "stale"
      BY <1>2, <3>2 DEF IInv, Movers, Generations, ProofFree, Issued, Gone
    <3>3. CASE use[c] \in {"cancel", "release"}
      BY <3>1, <3>3 DEF IInv, Holders, Holding, Asked
    <3>4. QED
      BY <3>1, <3>2, <3>3
  <2>3. Spent' = Spent \cup {lock}
    BY <1>2, <2>1, <2>2 DEF Spent, IInv, TypeOK
  <2>4. Asked' \subseteq Asked
    BY <2>1, AskedIsCurrent DEF Asked, IInv, Holders
  <2>5. Abstract!Expire
    BY <1>2, <2>1, <2>2, <2>3, <2>4 DEF Abstract!Expire, Spent, Gone, Asked
  <2>6. QED
    BY <2>5 DEF Abstract!Next
<1>3. QED
  BY <1>1, <1>2

LEMMA CrashRefines ==
  ASSUME IInv, IInv', NEW h \in Host, Crash(h)
  PROVE  Abstract!Next
<1>1. UNCHANGED Files /\ Live' \subseteq Live
  BY DEF Crash, Live, IInv, TypeOK
<1>2. Spent' = Spent /\ lock' = lock /\ Issued' = Issued
  BY <1>1 DEF Files, Spent, Issued
<1>3. Gone \subseteq Gone'
  BY <1>1, <1>2 DEF Gone, Files
<1>4. Gone' \subseteq Spent \cup {lock}
  BY <1>2 DEF Gone, Issued, Spent, IInv, Generations
<1>5. Asked' \subseteq Asked
  BY DEF Crash, Asked, Holding, IInv, TypeOK
<1>6. Abstract!Orphan
  BY <1>2, <1>3, <1>4, <1>5 DEF Abstract!Orphan, Spent, Gone, Asked
<1>7. QED
  BY <1>6 DEF Abstract!Next

LEMMA BootRefines ==
  ASSUME IInv, IInv', NEW h \in Host, NEW i \in Identity, Boot(h, i)
  PROVE  Abstract!Next
<1>1. UNCHANGED Files /\ Live' = Live \cup {i}
  BY DEF Boot, Live, IInv, TypeOK
<1>2. Spent' = Spent /\ lock' = lock /\ Issued' = Issued
  BY <1>1 DEF Files, Spent, Issued
<1>3. Gone' = Gone
  BY <1>1, <1>2 DEF Gone, Files, Boot, IInv, Identities, Issued
<1>4. Gone' \subseteq Spent \cup {lock}
  BY <1>2 DEF Gone, Issued, Spent, IInv, Generations
<1>5. Asked' \subseteq Asked
  BY DEF Boot, Asked, Holding, IInv, TypeOK
<1>6. Abstract!Orphan
  BY <1>2, <1>3, <1>4, <1>5 DEF Abstract!Orphan, Spent, Gone, Asked
<1>7. QED
  BY <1>6 DEF Abstract!Next

LEMMA StepRefines == IInv /\ IInv' /\ [Next]_vars => [Abstract!Next]_Abstract!vars
<1> SUFFICES ASSUME IInv, IInv', Next PROVE Abstract!Next
  <2>1. UNCHANGED vars => UNCHANGED Abstract!vars
    BY DEF vars, local, Abstract!vars, Issued, Live, Holding
  <2>2. QED
    BY <2>1
<1>1. ASSUME NEW c \in Caller,
             \/ Look(c) \/ ReadDirectory(c) \/ ReadMetadata(c) \/ CheckGeneration(c)
             \/ CheckProof(c) \/ VerifyProof(c) \/ \E known \in BOOLEAN : Observe(c, known)
             \/ Begin(c) \/ Abort(c) \/ TimeOut(c) \/ Release(c)
      PROVE  Abstract!Next
  <2>1. UNCHANGED <<Files, Processes>>
    BY <1>1 DEF Look, ReadDirectory, ReadMetadata, CheckGeneration, CheckProof,
       VerifyProof, Observe, Begin, Abort, TimeOut, Release
  <2>2. QED
    BY <2>1, QuietStep DEF Abstract!Next
<1>2. QED
  BY <1>1, PublishRefines, RenameRefines, CrashRefines, BootRefines DEF Next, Step

\* The lease files implement the abstract exclusive lease: a generation ends
\* only when its owner asked for it or no longer exists.
THEOREM Refinement == Spec => ImplementsExclusiveLease
<1>1. Init => Abstract!Init
  BY DEF Init, Abstract!Init, Issued, Holding
<1>2. IInv /\ IInv' /\ [Next]_vars => [Abstract!Next]_Abstract!vars
  BY StepRefines
<1>3. QED
  BY <1>1, <1>2, Invariance, PTL DEF Spec, Abstract!Spec, ImplementsExclusiveLease

\* The lease is true to its holder and to every healthy caller.
THEOREM LeaseHolds == Spec => []LeaseIsTrue
<1>1. HolderKeepsLease /\ NoFalseFailure => LeaseIsTrue
  BY DEF LeaseIsTrue
<1>2. QED
  BY <1>1, OwnerKeepsLease, HealthyCallsSucceed, PTL
=============================================================================
