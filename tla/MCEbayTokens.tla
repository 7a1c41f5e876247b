--------------------------------- MODULE MCEbayTokens ---------------------------------
(* Services that resolve a token, in a transaction or, like the nightly      *)
(* sync, outside one, beside a user who consents anew.                       *)
EXTENDS EbayTokens

Services == {"request1", "request2", "nightly"}
WebRequests == {"request1", "request2"}
OneConsent == {"consent"}
=============================================================================
