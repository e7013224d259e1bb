--------------------------- MODULE PeCertificates ---------------------------
(***************************************************************************)
(* Reconstruction of the certificate chains of an Authenticode signature: *)
(* PeFormat::loadCertificates (pe_format.cpp).  The certificates of the    *)
(* PKCS7 structure are put in a hash table keyed by subject name; the walk *)
(* starts at the signer, follows issuer names through the table, erasing   *)
(* every certificate it takes, and when the signer chain ends it restarts  *)
(* once at the counter-signer.                                             *)
(*                                                                         *)
(* Certificates are model values, subject and issuer names are model       *)
(* values (EmptyName is the empty string).  The OpenSSL parsing and the    *)
(* lookups by issuer and serial number are abstracted to their results:   *)
(* which certificate is the signer and which is the counter-signer.        *)
(***************************************************************************)
EXTENDS Integers, Sequences, FiniteSets, Functions

CONSTANTS
  Certs,          \* certificates that can appear in p7->d.sign->cert
  Names,          \* non-empty distinguished names
  EmptyName,      \* the empty std::string
  NoCert          \* nullptr

ASSUME EmptyName \notin Names /\ NoCert \notin Certs

VARIABLES
  certs,             \* STACK_OF(X509) *certs, in stack order
  subject,           \* X509_NAME_oneline(X509_get_subject_name(x))
  issuer,            \* Certificate(x).getRawIssuer()
  signerCert,        \* first certificate of PKCS7_get0_signers, or NoCert
  counterSignerCert, \* X509_find_by_issuer_and_serial result, or NoCert
  subjectToCert,     \* std::unordered_map<std::string, X509*>
  nextIssuer,
  counterChain,
  table,             \* certificateTable, the certificates in insertion order
  signerIdx,         \* setSignerCertificateIndex, 0 when never set
  counterSignerIdx,  \* setCounterSignerCertificateIndex, 0 when never set
  pc

inputs == <<certs, subject, issuer, signerCert, counterSignerCert>>
vars == <<inputs, subjectToCert, nextIssuer, counterChain, table,
          signerIdx, counterSignerIdx, pc>>

\* Orderings of the certificate stack, every certificate once.
CertStacks == {s \in [1..Cardinality(Certs) -> Certs] : IsInjective(s)}

Init ==
  /\ certs \in CertStacks
  /\ subject \in [Certs -> Names]
  /\ issuer \in [Certs -> Names \cup {EmptyName}]
  /\ signerCert \in Certs \cup {NoCert}
  /\ counterSignerCert \in Certs \cup {NoCert}
  /\ subjectToCert = [n \in {} |-> NoCert]
  /\ nextIssuer = EmptyName
  /\ counterChain = FALSE
  /\ table = <<>>
  /\ signerIdx = 0
  /\ counterSignerIdx = 0
  /\ pc = "start"

(***************************************************************************)
(* The security directory holds no certificate, a BIO call fails or the    *)
(* PKCS7 structure does not parse: the method returns with no table.       *)
(***************************************************************************)
Pkcs7Unavailable ==
  /\ pc = "start"
  /\ pc' = "returned"
  /\ UNCHANGED <<inputs, subjectToCert, nextIssuer, counterChain, table,
                 signerIdx, counterSignerIdx>>

\* !signerCert && !counterSignerCert: "something really bad", return.
NoSigner ==
  /\ pc = "start"
  /\ signerCert = NoCert
  /\ counterSignerCert = NoCert
  /\ pc' = "returned"
  /\ UNCHANGED <<inputs, subjectToCert, nextIssuer, counterChain, table,
                 signerIdx, counterSignerIdx>>

(***************************************************************************)
(* subjectToCert[subject] = xcert for every certificate in stack order, so *)
(* of two certificates with one subject the later one stays; the walk     *)
(* then starts at the subject name of the signer.                          *)
(***************************************************************************)
LastWithSubject(n) ==
  certs[CHOOSE j \in DOMAIN certs :
          /\ subject[certs[j]] = n
          /\ \A k \in DOMAIN certs : subject[certs[k]] = n => k <= j]

BuildSubjectMap ==
  /\ pc = "start"
  /\ signerCert /= NoCert \/ counterSignerCert /= NoCert
  /\ subjectToCert' = [n \in {subject[certs[j]] : j \in DOMAIN certs} |->
                         LastWithSubject(n)]
  /\ nextIssuer' = IF signerCert /= NoCert THEN subject[signerCert] ELSE EmptyName
  /\ counterChain' = FALSE
  /\ pc' = "loop"
  /\ UNCHANGED <<inputs, table, signerIdx, counterSignerIdx>>

\* A loop that ends with the signer chain and never looks at the counter-signer.
LoopConditionSignerOnly == nextIssuer /= EmptyName

\* while(!nextIssuer.empty() || (!counterChain && counterSignerCert))
LoopCondition ==
  nextIssuer /= EmptyName \/ (~counterChain /\ counterSignerCert /= NoCert)

Found == nextIssuer \in DOMAIN subjectToCert

\* A restart at the counter-signer that forgets to set counterChain.
SwitchWithoutFlag ==
  /\ pc = "loop"
  /\ LoopCondition
  /\ ~Found
  /\ ~counterChain /\ counterSignerCert /= NoCert
  /\ nextIssuer' = subject[counterSignerCert]
  /\ UNCHANGED <<inputs, subjectToCert, counterChain, table, signerIdx,
                 counterSignerIdx, pc>>

\* The issuer is not in the table: restart once at the counter-signer.
SwitchToCounterChain ==
  /\ pc = "loop"
  /\ LoopCondition
  /\ ~Found
  /\ ~counterChain /\ counterSignerCert /= NoCert
  /\ nextIssuer' = subject[counterSignerCert]
  /\ counterChain' = TRUE
  /\ UNCHANGED <<inputs, subjectToCert, table, signerIdx, counterSignerIdx, pc>>

\* The issuer is not in the table and the counter chain was done: break.
ChainBroken ==
  /\ pc = "loop"
  /\ LoopCondition
  /\ ~Found
  /\ ~(~counterChain /\ counterSignerCert /= NoCert)
  /\ pc' = "done"
  /\ UNCHANGED <<inputs, subjectToCert, nextIssuer, counterChain, table,
                 signerIdx, counterSignerIdx>>

\* A lookup that leaves the certificate in the hash table.
TakeCertificateKeepingEntry ==
  /\ pc = "loop"
  /\ LoopCondition
  /\ Found
  /\ LET xcert == subjectToCert[nextIssuer]
     IN  /\ table' = Append(table, xcert)
         /\ signerIdx' = IF xcert = signerCert THEN Len(table') ELSE signerIdx
         /\ counterSignerIdx' = IF xcert /= signerCert /\ xcert = counterSignerCert
                                  THEN Len(table') ELSE counterSignerIdx
         /\ nextIssuer' = issuer[xcert]
  /\ UNCHANGED <<inputs, subjectToCert, counterChain, pc>>

(***************************************************************************)
(* The issuer is found: its certificate is erased from the hash table,    *)
(* appended to the certificate table, its index recorded if it is the     *)
(* signer or else the counter-signer, and the walk moves to its issuer.   *)
(***************************************************************************)
TakeCertificate ==
  /\ pc = "loop"
  /\ LoopCondition
  /\ Found
  /\ LET xcert == subjectToCert[nextIssuer]
     IN  /\ subjectToCert' = [n \in DOMAIN subjectToCert \ {nextIssuer} |->
                                subjectToCert[n]]
         /\ table' = Append(table, xcert)
         /\ signerIdx' = IF xcert = signerCert THEN Len(table') ELSE signerIdx
         /\ counterSignerIdx' = IF xcert /= signerCert /\ xcert = counterSignerCert
                                  THEN Len(table') ELSE counterSignerIdx
         /\ nextIssuer' = issuer[xcert]
  /\ UNCHANGED <<inputs, counterChain, pc>>

\* The loop condition fails: PKCS7_free, BIO_free, return.
ChainsDone ==
  /\ pc = "loop"
  /\ ~LoopCondition
  /\ pc' = "done"
  /\ UNCHANGED <<inputs, subjectToCert, nextIssuer, counterChain, table,
                 signerIdx, counterSignerIdx>>

Terminated == pc \in {"returned", "done"} /\ UNCHANGED vars

Next ==
  \/ Pkcs7Unavailable
  \/ NoSigner
  \/ BuildSubjectMap
  \/ SwitchToCounterChain
  \/ ChainBroken
  \/ TakeCertificate
  \/ ChainsDone
  \/ Terminated

\* loadCertificates runs to completion on the one thread that parses the file.
Spec == Init /\ [][Next]_vars /\ WF_vars(Next)

-----------------------------------------------------------------------------
(***************************************************************************)
(* Reference definitions: the certificates reachable from c by following  *)
(* issuer names to the certificate with that subject.                     *)
(***************************************************************************)
BySubject(n) == {c \in Range(certs) : subject[c] = n}

RECURSIVE ChainFrom(_, _)
ChainFrom(c, seen) ==
  IF c \in seen THEN seen
  ELSE LET next == BySubject(issuer[c])
       IN  IF next = {} THEN seen \cup {c}
           ELSE ChainFrom(CHOOSE x \in next : TRUE, seen \cup {c})

Chain(c) == IF c = NoCert THEN {} ELSE ChainFrom(c, {})

\* No two certificates of the stack share a subject name.
UniqueSubjectNames == IsInjective([j \in DOMAIN certs |-> subject[certs[j]]])


-----------------------------------------------------------------------------
TypeOK ==
  /\ certs \in CertStacks
  /\ subject \in [Certs -> Names]
  /\ issuer \in [Certs -> Names \cup {EmptyName}]
  /\ signerCert \in Certs \cup {NoCert}
  /\ counterSignerCert \in Certs \cup {NoCert}
  /\ DOMAIN subjectToCert \subseteq Names
  /\ nextIssuer \in Names \cup {EmptyName}
  /\ counterChain \in BOOLEAN
  /\ table \in Seq(Certs)
  /\ signerIdx \in 0..Cardinality(Certs)
  /\ counterSignerIdx \in 0..Cardinality(Certs)
  /\ pc \in {"start", "loop", "returned", "done"}

(* No certificate is added to the certificate table twice, even when the   *)
(* issuer names form a cycle (a self-signed root, or two certificates that *)
(* name each other): erasing taken certificates is what guarantees it.     *)
NoDuplicateCertificates ==
  \A i, j \in DOMAIN table : table[i] = table[j] => i = j

(* The chain walk always ends, whatever cycles the issuer names form.      *)
WalkTerminates == <>(pc \in {"returned", "done"})

(* "Start with signer certificate which will be always first": whenever    *)
(* the walk starts at a signer, the first certificate of the table is it.  *)
SignerFirst ==
  (pc = "done" /\ signerCert /= NoCert) => table /= <<>> /\ table[1] = signerCert

(* With one certificate per subject name, the certificate table holds     *)
(* exactly the chain of the signer and the chain of the counter-signer,    *)
(* each followed by issuer names until a name no certificate has, and the  *)
(* recorded indices point at the signer and the counter-signer.            *)
ChainsComplete ==
  (UniqueSubjectNames /\ pc = "done") =>
    /\ Range(table) = Chain(signerCert) \cup Chain(counterSignerCert)
    /\ signerCert /= NoCert => table[signerIdx] = signerCert
    /\ counterSignerCert \notin {NoCert, signerCert} =>
         table[counterSignerIdx] = counterSignerCert
=============================================================================
