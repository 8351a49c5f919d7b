--------------------------- MODULE MCStreamingHttp ---------------------------
EXTENDS StreamingHttp

\* One status of each class finalize() tells apart, and a redirect.
MCStatuses == {200, 302, 503}
=============================================================================
