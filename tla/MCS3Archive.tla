----------------------------- MODULE MCS3Archive -----------------------------
EXTENDS S3Archive

\* Chunks below, at and above what fills a part together with another.
MCSizes == {1, 2}
=============================================================================
