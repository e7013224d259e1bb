------------------------- MODULE MC_PeCertificates -------------------------
EXTENDS PeCertificates, TLC

CONSTANTS c1, c2, c3, n1, n2, n3

\* Three certificates: a signer, an intermediate and a root, or a signer
\* and a separate counter-signer chain; three names so that every issuer
\* relation among them, cycles included, can be formed.
MCCerts == {c1, c2, c3}
MCNames == {n1, n2, n3}
====
