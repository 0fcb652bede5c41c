--------------------------- MODULE MCDirectorySync ---------------------------
EXTENDS DirectorySync, TLC
CONSTANTS e1, e2
Known(boss) == [status |-> "active", team |-> "ours", boss |-> boss]
\* e2 is hired later.
MCFirstFacts == (e1 :> Known(None)) @@ (e2 :> <<>>)
MCListing == <<e1, e2>>
=============================================================================
