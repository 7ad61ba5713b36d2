------------------------- MODULE CertificateLoader -------------------------
(***************************************************************************)
(* The reload of the TLS certificate in internal/dataplane/tls.go: a       *)
(* handshake looks at the modification times of the two files under the    *)
(* loader's mutex and loads the pair again if one of them changed, while   *)
(* an operator replaces the files one after the other.                     *)
(* Initial states and steps; PublicAccess composes them.                   *)
(*                                                                         *)
(* A file is known by the number of the pair it belongs to, which stands   *)
(* for its modification time too: files are replaced by newer ones, each   *)
(* in one step, and have a time of their own.                              *)
(***************************************************************************)
EXTENDS Naturals

CONSTANTS
    Handshakes,     \* goroutines of connections that are in their handshake
    MaxPairs,       \* bound on the pairs the operator installs
    NoHandshake     \* nobody holds the mutex

ASSUME LoaderAssumption == MaxPairs \in Nat \ {0} /\ NoHandshake \notin Handshakes

VARIABLES
    certFile, keyFile,  \* the files: which pair they are of, and whether they are there
    cert,               \* loader.cert: which pair
    certMod, keyMod,    \* loader.certMod, loader.keyMod
    loaderMu,           \* who holds loader.mu
    step,               \* where a handshake is; "served" and "failed" when it is over
    presented,          \* the pair it presented; 0 if it failed
    certInfo, keyInfo,  \* what the holder of the mutex found: a time, or 0 for no file
    certRead,           \* the certificate it has read
    disturbed           \* history: handshakes during which a file changed

fileVars   == <<certFile, keyFile>>
loaderVars == <<cert, certMod, keyMod, loaderMu>>
lookVars == <<certInfo, keyInfo, certRead>>
tlsVars == <<fileVars, loaderVars, step, presented, lookVars, disturbed>>

Pairs == 1 .. MaxPairs
Over  == {"served", "failed"}

\* TLSListener has loaded the first pair.
TLSInit ==
    /\ certFile = [pair |-> 1, there |-> TRUE] /\ keyFile = certFile
    /\ cert = 1 /\ certMod = 1 /\ keyMod = 1
    /\ loaderMu = NoHandshake
    /\ step = [h \in Handshakes |-> "failed"]
    /\ presented = [h \in Handshakes |-> 0]
    /\ certInfo = 0 /\ keyInfo = 0 /\ certRead = 0
    /\ disturbed = Handshakes

-----------------------------------------------------------------------------
(* The operator.                                                            *)

\* The next version of a file: a newer one in its place, or it is taken away first.
Replaced(file) ==
    {[file EXCEPT !.there = FALSE]}
        \cup {[pair |-> p, there |-> TRUE] : p \in {q \in Pairs : q > file.pair}}

ReplaceFile ==
    /\ \/ certFile' \in Replaced(certFile) /\ certFile' # certFile /\ UNCHANGED keyFile
       \/ keyFile' \in Replaced(keyFile) /\ keyFile' # keyFile /\ UNCHANGED certFile
    /\ disturbed' = Handshakes
    /\ UNCHANGED <<loaderVars, step, presented, lookVars>>

-----------------------------------------------------------------------------
(* load.                                                                    *)

Goes(h, there) == step' = [step EXCEPT ![h] = there]

ClientHello(h) ==
    /\ step[h] \in Over
    /\ Goes(h, "lock")
    /\ presented' = [presented EXCEPT ![h] = 0]
    /\ disturbed' = disturbed \ {h}
    /\ UNCHANGED <<fileVars, loaderVars, lookVars>>

LockLoader(h) ==
    /\ step[h] = "lock" /\ loaderMu = NoHandshake
    /\ loaderMu' = h
    /\ Goes(h, "statCert")
    /\ UNCHANGED <<fileVars, cert, certMod, keyMod, presented, lookVars, disturbed>>

Time(file) == IF file.there THEN file.pair ELSE 0

StatCert(h) ==
    /\ step[h] = "statCert"
    /\ certInfo' = Time(certFile)
    /\ Goes(h, "statKey")
    /\ UNCHANGED <<fileVars, loaderVars, presented, keyInfo, certRead, disturbed>>

StatKey(h) ==
    /\ step[h] = "statKey"
    /\ keyInfo' = Time(keyFile)
    /\ Goes(h, "compare")
    /\ UNCHANGED <<fileVars, loaderVars, presented, certInfo, certRead, disturbed>>

\* load returns: the mutex is free, and what it looked at forgotten.
Return(h, how, pair) ==
    /\ Goes(h, how)
    /\ presented' = [presented EXCEPT ![h] = pair]
    /\ loaderMu' = NoHandshake
    /\ certInfo' = 0 /\ keyInfo' = 0 /\ certRead' = 0
    /\ UNCHANGED <<fileVars, disturbed>>

StatFailed == certInfo = 0 \/ keyInfo = 0

Unchanged == certInfo = certMod /\ keyInfo = keyMod

\* Both files have the times of the pair it has, or one could not be looked at.
AnswerFromCache(h) ==
    /\ step[h] = "compare"
    /\ \/ StatFailed /\ Return(h, "failed", 0)
       \/ ~StatFailed /\ Unchanged /\ Return(h, "served", cert)
    /\ UNCHANGED <<cert, certMod, keyMod>>

\* LoadX509KeyPair reads the certificate ...
ReadCert(h) ==
    /\ step[h] = "compare" /\ ~StatFailed /\ ~Unchanged
    /\ certRead' = Time(certFile)
    /\ Goes(h, "readKey")
    /\ UNCHANGED <<fileVars, loaderVars, presented, certInfo, keyInfo, disturbed>>

\* Mutant: the times are those of the files once they were loaded.
TimesAfterLoad == <<certFile.pair, keyFile.pair>>

TimesRecorded == <<certInfo, keyInfo>>

\* ... and the key.  A pair that matches is kept with the times found before, and if
\* there is none the handshake fails, whatever pair the loader has.
ReadKey(h) ==
    /\ step[h] = "readKey"
    /\ IF certRead # 0 /\ certRead = Time(keyFile)
       THEN /\ cert' = certRead
            /\ certMod' = TimesRecorded[1] /\ keyMod' = TimesRecorded[2]
            /\ Return(h, "served", certRead)
       ELSE Return(h, "failed", 0) /\ UNCHANGED <<cert, certMod, keyMod>>

Load(h) ==
    LockLoader(h) \/ StatCert(h) \/ StatKey(h) \/ AnswerFromCache(h) \/ ReadCert(h) \/ ReadKey(h)

TLSNext == ReplaceFile \/ \E h \in Handshakes : ClientHello(h) \/ Load(h)

-----------------------------------------------------------------------------
Files == [pair: Pairs, there: BOOLEAN]

TLSTypeOK ==
    /\ certFile \in Files /\ keyFile \in Files
    /\ {cert, certMod, keyMod} \subseteq Pairs
    /\ loaderMu \in Handshakes \cup {NoHandshake}
    /\ step \in [Handshakes -> Over \cup {"lock", "statCert", "statKey", "compare", "readKey"}]
    /\ presented \in [Handshakes -> 0 .. MaxPairs]
    /\ {certInfo, keyInfo, certRead} \subseteq 0 .. MaxPairs
    /\ disturbed \subseteq Handshakes

\* Whatever is replaced between two looks at the files, times that agree with the files
\* mean that the pair in memory is the one in the files.
CacheIsCurrent ==
    loaderMu = NoHandshake /\ certMod = Time(certFile) /\ keyMod = Time(keyFile) =>
        cert = certFile.pair /\ cert = keyFile.pair

\* "Certificates are reloaded for new handshakes when either file changes": a handshake
\* during which nothing is replaced presents the pair in the files if they are one, and
\* fails otherwise, whatever earlier handshakes found half replaced.
CertificatesAreFresh ==
    /\ CacheIsCurrent
    /\ \A h \in Handshakes : step[h] \in Over /\ h \notin disturbed =>
          presented[h] = IF Time(certFile) = Time(keyFile) THEN Time(certFile) ELSE 0
=============================================================================
