----------------------- MODULE CertificateLoaderProofs -----------------------
(* An inductive invariant of CertificateLoader, for any number of handshakes    *)
(* and of pairs.  PublicAccessProofs makes theorems of PublicAccess of it.      *)
EXTENDS CertificateLoader, TLAPS

Holding == {"statCert", "statKey", "compare", "readKey"}

\* The pair a handshake presents that nothing disturbs.
PairInFiles == IF Time(certFile) = Time(keyFile) THEN Time(certFile) ELSE 0

\* What h found of a file is not newer than the file, and is the file unless it changed.
Saw(h, time, file) == time <= file.pair /\ (h \notin disturbed => time = Time(file))

\* Only the holder of the mutex looks at files, and it reads the certificate after it
\* looked at its time.
HandshakeInv(h) ==
    /\ step[h] \in Holding <=> loaderMu = h
    /\ step[h] \in {"statKey", "compare", "readKey"} => Saw(h, certInfo, certFile)
    /\ step[h] \in {"compare", "readKey"} => Saw(h, keyInfo, keyFile)
    /\ step[h] = "readKey" =>
          /\ certInfo # 0 /\ keyInfo # 0
          /\ Saw(h, certRead, certFile) /\ (certRead # 0 => certInfo <= certRead)
    /\ step[h] \in Over /\ h \notin disturbed => presented[h] = PairInFiles

\* The pair in memory was there when the files had the recorded times or were newer:
\* since files are replaced by newer ones, times that agree leave no other pair.
CacheInv ==
    /\ certMod <= cert /\ cert <= certFile.pair
    /\ keyMod <= cert /\ cert <= keyFile.pair

TLSInv == TLSTypeOK /\ CacheInv /\ \A h \in Handshakes : HandshakeInv(h)

LEMMA InitTLS == TLSInit => TLSInv
<1> SUFFICES ASSUME TLSInit PROVE TLSInv
  OBVIOUS
<1>1. certFile \in Files /\ certFile.pair = 1 /\ keyFile = certFile
  BY LoaderAssumption DEF TLSInit, Files, Pairs
<1>2. TLSTypeOK
  BY <1>1, LoaderAssumption DEF TLSInit, TLSTypeOK, Pairs, Over
<1> QED
  BY <1>1, <1>2, LoaderAssumption DEF TLSInit, TLSInv, CacheInv, HandshakeInv, Holding

LEMMA FileFacts ==
    ASSUME NEW file \in Files
    PROVE  /\ file.pair \in Nat /\ file.pair # 0 /\ file.pair <= MaxPairs
           /\ Time(file) \in 0 .. MaxPairs /\ Time(file) \in {0, file.pair}
  BY LoaderAssumption DEF Files, Pairs, Time

LEMMA NewerFile ==
    ASSUME NEW file \in Files, NEW new \in Replaced(file)
    PROVE  new \in Files /\ file.pair <= new.pair
<1>1. CASE new = [file EXCEPT !.there = FALSE]
  <2>1. new \in Files /\ new.pair = file.pair
    BY <1>1 DEF Files
  <2> QED
    BY <2>1, FileFacts
<1>2. CASE new # [file EXCEPT !.there = FALSE]
  <2>1. PICK p \in Pairs : p > file.pair /\ new = [pair |-> p, there |-> TRUE]
    BY <1>2 DEF Replaced
  <2> QED
    BY <2>1, FileFacts DEF Files, Pairs
<1> QED
  BY <1>1, <1>2

\* The handshakes other than the one that has the mutex, gets it or gives it back: they
\* do not depend on what the holder looks at.
LEMMA OtherHandshakes ==
    ASSUME TLSInv, NEW h \in Handshakes, UNCHANGED <<fileVars, disturbed>>,
           loaderMu \in {h, NoHandshake}, loaderMu' \in {h, NoHandshake},
           \A k \in Handshakes \ {h} : step'[k] = step[k] /\ presented'[k] = presented[k]
    PROVE  \A k \in Handshakes \ {h} : HandshakeInv(k)'
<1> SUFFICES ASSUME NEW k \in Handshakes \ {h} PROVE HandshakeInv(k)'
  OBVIOUS
<1>1. loaderMu # k /\ loaderMu' # k /\ step[k] \notin Holding
  BY LoaderAssumption DEF TLSInv, HandshakeInv
<1> QED
  BY <1>1 DEF TLSInv, HandshakeInv, PairInFiles, Time, fileVars, Holding, Over

\* What load does to one handshake.
LEMMA LoadSteps ==
    ASSUME TLSInv, NEW h \in Handshakes, Load(h)
    PROVE  TLSInv'
<1> USE DEF TLSInv
<1>0. /\ Time(certFile) \in 0 .. MaxPairs /\ Time(certFile) \in {0, certFile.pair}
      /\ Time(keyFile) \in 0 .. MaxPairs /\ Time(keyFile) \in {0, keyFile.pair}
      /\ certFile.pair \in Nat /\ keyFile.pair \in Nat /\ certFile.pair # 0 /\ keyFile.pair # 0
      /\ {certInfo, keyInfo, certRead, cert, certMod, keyMod} \subseteq 0 .. MaxPairs
      /\ 0 \notin {cert, certMod, keyMod} /\ MaxPairs \in Nat
  BY FileFacts, LoaderAssumption DEF TLSTypeOK, Pairs
<1>1. CASE LockLoader(h)
  <2>1. TLSTypeOK' /\ CacheInv'
    BY <1>1 DEF LockLoader, Goes, TLSTypeOK, CacheInv, fileVars, lookVars
  <2>2. HandshakeInv(h)'
    BY <1>1 DEF LockLoader, Goes, TLSTypeOK, HandshakeInv, Holding, Over
  <2> QED
    BY <1>1, <2>1, <2>2, OtherHandshakes DEF LockLoader, Goes, TLSTypeOK
<1>2. CASE StatCert(h)
  <2>1. TLSTypeOK' /\ CacheInv'
    BY <1>0, <1>2 DEF StatCert, Goes, TLSTypeOK, CacheInv, fileVars, loaderVars
  <2>2. HandshakeInv(h)'
    BY <1>0, <1>2 DEF StatCert, Goes, TLSTypeOK, HandshakeInv, Holding, Over, Saw, Time, fileVars, loaderVars
  <2>3. loaderMu = h /\ loaderMu' = loaderMu
    BY <1>2 DEF StatCert, HandshakeInv, Holding, loaderVars
  <2> QED
    BY <1>2, <2>1, <2>2, <2>3, OtherHandshakes DEF StatCert, Goes, TLSTypeOK
<1>3. CASE StatKey(h)
  <2>1. TLSTypeOK' /\ CacheInv'
    BY <1>0, <1>3 DEF StatKey, Goes, TLSTypeOK, CacheInv, fileVars, loaderVars
  <2>2. HandshakeInv(h)'
    BY <1>0, <1>3 DEF StatKey, Goes, TLSTypeOK, HandshakeInv, Holding, Over, Saw, Time, fileVars, loaderVars
  <2>3. loaderMu = h /\ loaderMu' = loaderMu
    BY <1>3 DEF StatKey, HandshakeInv, Holding, loaderVars
  <2> QED
    BY <1>3, <2>1, <2>2, <2>3, OtherHandshakes DEF StatKey, Goes, TLSTypeOK
<1>4. CASE ReadCert(h)
  <2>1. TLSTypeOK' /\ CacheInv'
    BY <1>0, <1>4 DEF ReadCert, Goes, TLSTypeOK, CacheInv, fileVars, loaderVars
  <2>2. HandshakeInv(h)'
    BY <1>0, <1>4 DEF ReadCert, Goes, StatFailed, TLSTypeOK, HandshakeInv, Holding, Over, Saw, Time,
                      fileVars, loaderVars
  <2>3. loaderMu = h /\ loaderMu' = loaderMu
    BY <1>4 DEF ReadCert, HandshakeInv, Holding, loaderVars
  <2> QED
    BY <1>4, <2>1, <2>2, <2>3, OtherHandshakes DEF ReadCert, Goes, TLSTypeOK
<1>5. CASE AnswerFromCache(h)
  <2>1. PICK pair \in Nat, how \in Over :
            /\ Return(h, how, pair) /\ pair \in {0, cert}
            /\ h \notin disturbed => pair = PairInFiles
    <3>1. h \notin disturbed => certInfo = Time(certFile) /\ keyInfo = Time(keyFile)
      BY <1>5 DEF AnswerFromCache, HandshakeInv, Saw
    <3>2. CASE StatFailed /\ Return(h, "failed", 0)
      BY <3>1, <3>2 DEF StatFailed, PairInFiles, Over
    <3>3. CASE ~StatFailed /\ Unchanged /\ Return(h, "served", cert)
      <4>1. h \notin disturbed => cert = certFile.pair /\ cert = keyFile.pair
        BY <1>0, <3>1, <3>3 DEF StatFailed, Unchanged, CacheInv
      <4> QED
        BY <1>0, <3>1, <3>3, <4>1 DEF StatFailed, PairInFiles, Over
    <3> QED
      BY <1>5, <3>2, <3>3 DEF AnswerFromCache
  <2>2. UNCHANGED <<cert, certMod, keyMod, certFile, keyFile, disturbed>>
    BY <1>5, <2>1 DEF AnswerFromCache, Return, fileVars
  <2>3. TLSTypeOK' /\ CacheInv'
    BY <1>0, <2>1, <2>2 DEF Return, Goes, TLSTypeOK, CacheInv
  <2>4. HandshakeInv(h)'
    BY <2>1, <2>2, LoaderAssumption DEF Return, Goes, TLSTypeOK, HandshakeInv, Holding, Over, PairInFiles, Time
  <2>5. loaderMu = h /\ loaderMu' = NoHandshake
    BY <1>5, <2>1 DEF AnswerFromCache, Return, HandshakeInv, Holding
  <2> QED
    BY <2>1, <2>2, <2>3, <2>4, <2>5, OtherHandshakes DEF Return, Goes, TLSTypeOK, fileVars
<1>6. CASE ReadKey(h)
  <2>1. PICK pair \in 0 .. MaxPairs, how \in Over :
            /\ Return(h, how, pair)
            /\ h \notin disturbed => pair = PairInFiles
            /\ \/ UNCHANGED <<cert, certMod, keyMod>>
               \/ /\ pair # 0 /\ pair = certRead /\ pair = Time(keyFile)
                  /\ cert' = pair /\ certMod' = certInfo /\ keyMod' = keyInfo
    <3>1. CASE certRead # 0 /\ certRead = Time(keyFile)
      BY <1>0, <1>6, <3>1 DEF ReadKey, HandshakeInv, Saw, PairInFiles, TimesRecorded, Over
    <3>2. CASE ~(certRead # 0 /\ certRead = Time(keyFile))
      BY <1>0, <1>6, <3>2 DEF ReadKey, HandshakeInv, Saw, PairInFiles, Over
    <3> QED
      BY <3>1, <3>2
  <2>2. UNCHANGED <<certFile, keyFile, disturbed>>
    BY <2>1 DEF Return, fileVars
  <2>3. CacheInv' /\ {cert', certMod', keyMod'} \subseteq Pairs
    BY <1>0, <1>6, <2>1, <2>2 DEF ReadKey, HandshakeInv, Saw, CacheInv, TLSTypeOK, Pairs
  <2>4. TLSTypeOK'
    BY <1>0, <2>1, <2>2, <2>3 DEF Return, Goes, TLSTypeOK
  <2>5. HandshakeInv(h)'
    BY <2>1, <2>2, LoaderAssumption DEF Return, Goes, TLSTypeOK, HandshakeInv, Holding, Over, PairInFiles, Time
  <2>6. loaderMu = h /\ loaderMu' = NoHandshake
    BY <1>6, <2>1 DEF ReadKey, Return, HandshakeInv, Holding
  <2> QED
    BY <2>1, <2>2, <2>3, <2>4, <2>5, <2>6, OtherHandshakes DEF Return, Goes, TLSTypeOK, fileVars
<1> QED
  BY <1>1, <1>2, <1>3, <1>4, <1>5, <1>6 DEF Load

LEMMA StepTLS == TLSInv /\ [TLSNext]_tlsVars => TLSInv'
<1> SUFFICES ASSUME TLSInv, [TLSNext]_tlsVars PROVE TLSInv'
  OBVIOUS
<1> USE DEF TLSInv
<1>1. CASE UNCHANGED tlsVars
  BY <1>1 DEF tlsVars, fileVars, loaderVars, lookVars, TLSTypeOK, CacheInv, HandshakeInv, Saw, PairInFiles, Time
<1>2. CASE ReplaceFile
  <2>1. UNCHANGED <<cert, certMod, keyMod, loaderMu, step, presented, certInfo, keyInfo, certRead>>
        /\ disturbed' = Handshakes
    BY <1>2 DEF ReplaceFile, loaderVars, lookVars
  <2>2. /\ certFile' \in Files /\ certFile.pair <= certFile'.pair
        /\ keyFile' \in Files /\ keyFile.pair <= keyFile'.pair
    BY <1>2, NewerFile, FileFacts DEF ReplaceFile, TLSTypeOK
  <2>3. TLSTypeOK'
    BY <2>1, <2>2 DEF TLSTypeOK
  <2>4. CacheInv' /\ \A h \in Handshakes : HandshakeInv(h)'
    <3>1. /\ {certFile.pair, certFile'.pair, keyFile.pair, keyFile'.pair} \subseteq Nat
          /\ {cert, certMod, keyMod, certInfo, keyInfo, certRead} \subseteq Nat
      BY <2>2, FileFacts, LoaderAssumption DEF TLSTypeOK, Pairs
    <3>2. CacheInv'
      BY <2>1, <2>2, <3>1 DEF CacheInv
    <3> SUFFICES ASSUME NEW h \in Handshakes PROVE HandshakeInv(h)'
      BY <3>2
    <3>3. HandshakeInv(h)
      OBVIOUS
    <3> QED
      BY <2>1, <2>2, <3>1, <3>3 DEF HandshakeInv, Saw
  <2> QED
    BY <2>3, <2>4
<1>3. ASSUME NEW h \in Handshakes, ClientHello(h) PROVE TLSInv'
  <2>1. UNCHANGED <<certFile, keyFile, cert, certMod, keyMod, loaderMu, certInfo, keyInfo, certRead>>
    BY <1>3 DEF ClientHello, fileVars, loaderVars, lookVars
  <2>2. TLSTypeOK' /\ CacheInv'
    BY <1>3, <2>1, LoaderAssumption DEF ClientHello, Goes, TLSTypeOK, CacheInv
  <2>3. HandshakeInv(h)'
    BY <1>3, <2>1 DEF ClientHello, Goes, TLSTypeOK, HandshakeInv, Holding, Over
  <2>4. ASSUME NEW k \in Handshakes \ {h} PROVE HandshakeInv(k)'
    <3>1. step'[k] = step[k] /\ presented'[k] = presented[k] /\ (k \in disturbed' <=> k \in disturbed)
      BY <1>3 DEF ClientHello, Goes, TLSTypeOK
    <3> QED
      BY <2>1, <3>1 DEF HandshakeInv, Saw, PairInFiles, Time
  <2> QED
    BY <2>2, <2>3, <2>4
<1> QED
  BY <1>1, <1>2, <1>3, LoadSteps DEF TLSNext

LEMMA FreshOfInv == TLSInv => CertificatesAreFresh
<1> SUFFICES ASSUME TLSInv PROVE CertificatesAreFresh
  OBVIOUS
<1>1. CacheIsCurrent
  BY FileFacts, LoaderAssumption DEF TLSInv, TLSTypeOK, CacheInv, CacheIsCurrent, Pairs
<1> QED
  BY <1>1 DEF TLSInv, HandshakeInv, PairInFiles, CertificatesAreFresh
=============================================================================
