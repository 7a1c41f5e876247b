------------------------------ MODULE ApiHandlers ------------------------------
(***************************************************************************)
(* What the handlers of the API do with a request: whom they let in, the   *)
(* input they refuse themselves, the services they call one after the      *)
(* other, each in a transaction of its own, and the answer they make of an *)
(* exception or of a result that is empty.  Requests are in ApiRequests.   *)
(***************************************************************************)
EXTENDS Integers, Sequences, TLC

-----------------------------------------------------------------------------
(* Services: one that reads, one that stores something, one that does      *)
(* something outside the database (at eBay, by mail, in a queue, in a      *)
(* file) and may store something too, one that raises for whatever it is   *)
(* given, and one that is called and never awaited.  That a call to eBay   *)
(* may rotate the token of the user first is in EbayTokens.                *)
Reads(s)   == [service |-> s, does |-> "reads"]
Writes(s)  == [service |-> s, does |-> "writes"]
Acts(s)    == [service |-> s, does |-> "acts"]
Fails(s)   == [service |-> s, does |-> "fails"]
Forgets(s) == [service |-> s, does |-> "nothing"]

(* Exceptions of a service: the HTTPException that the executor makes of a *)
(* broken constraint, the not-found and the access-denied errors of the    *)
(* domain, a ValueError or a validation error, and any other *)
Kinds == {"conflict", "missing", "denied", "invalid", "broken"}

(* HTTPException is raised on and the rest is a 500, as without a try      *)
Relaying == [k \in Kinds |-> IF k = "conflict" THEN 409 ELSE 500]
(* except <the domain's not-found error>: 404                              *)
Finding == [Relaying EXCEPT !.missing = 404]
(* except ValueError: 400, and the rest is raised on                       *)
Checking == [Relaying EXCEPT !.invalid = 400]
(* except ValueError: 400, except Exception: 500                           *)
CheckingOnly == [k \in Kinds |-> IF k = "invalid" THEN 400 ELSE 500]
(* except Exception: n                                                     *)
Always(n) == [k \in Kinds |-> n]

Handler(guard, services, on) ==
  [guard |-> guard,             \* "open", "user" or "admin"
   services |-> services,
   on |-> on,                   \* the status of each kind of exception
   empty |-> [i \in {} |-> 0],  \* services whose empty result is answered with an error
   refuses |-> {},              \* statuses of the input checks of the handler
   tolerates |-> {},            \* services whose exception is logged and forgotten
   fits |-> TRUE]               \* the result can be given as the declared response

Open(services, on)  == Handler("open", services, on)
User(services, on)  == Handler("user", services, on)
Admin(services, on) == Handler("admin", services, on)

-----------------------------------------------------------------------------
(* Card reference *)
suggest_cards == Open(<<Reads("card.suggest")>>, Relaying)
get_catalog_stats == Open(<<Reads("card.stats")>>, Relaying)
get_versions_in_set == Open(<<Reads("card.get_versions_in_set")>>, Relaying)
get_other_sets == Open(<<Reads("card.get_other_sets")>>, Relaying)
get_card == Open(<<Reads("card.get")>>, Relaying)
get_card_price_history == Open(<<Reads("card.get_price_history")>>, Relaying)
get_card_prices == Open(<<Reads("pricing.card.get_prices")>>, Relaying)
list_cards == Open(<<Reads("card.search")>>, Relaying)
insert_card == Admin(<<Writes("card.create")>>, Relaying)
bulk_insert_cards ==
  [Admin(<<Writes("card.create_many")>>, Relaying) EXCEPT !.refuses = {400}]
delete_card == Admin(<<Writes("card.delete")>>, Relaying)
test_service == Admin(<<Acts("card.process_large_json")>>, Relaying)

(* Set reference: the services of get, add, create_bulk, update and delete *)
(* pass their repository arguments it does not take *)
browse_sets == Open(<<Reads("set.browse")>>, Relaying)
get_set == [Open(<<Fails("set.get")>>, Relaying) EXCEPT !.empty = 1 :> 404]
list_sets == Open(<<Reads("set.get_all")>>, Relaying)
insert_set == [Admin(<<Fails("set.add")>>, Relaying) EXCEPT !.fits = FALSE]
bulk_insert_sets == [Admin(<<Fails("set.create_bulk")>>, Relaying) EXCEPT !.fits = FALSE]
update_set == Admin(<<Fails("set.update")>>, Relaying)
delete_set == Admin(<<Fails("set.delete")>>, Relaying)

(* Sealed prices *)
get_sealed_prices_by_set ==
  [Open(<<Reads("sealed.get_prices_by_set")>>, Relaying) EXCEPT !.empty = 1 :> 404]
get_sealed_price_history == Open(<<Reads("sealed.get_price_history")>>, Relaying)

(* Collections *)
create_collection == User(<<Writes("collection.add")>>, Relaying)
get_collection == User(<<Reads("collection.get")>>, [Finding EXCEPT !.denied = 403])
list_collections == User(<<Reads("collection.get_all")>>, Finding)
update_collection == User(<<Writes("collection.update")>>, Relaying)
delete_collection == User(<<Writes("collection.delete")>>, Finding)
add_entry == User(<<Writes("collection.add_entry")>>, Finding)
list_entries == User(<<Reads("collection.list_entries")>>, Finding)
get_entry == User(<<Reads("collection.get_entry")>>, Finding)
update_entry_status == User(<<Writes("collection.update_entry_status")>>, Finding)
delete_entry == User(<<Writes("collection.delete_entry")>>, Finding)

(* Users *)
get_me == User(<<>>, Relaying)
list_users == Admin(<<Reads("user.search_users")>>, Relaying)
register_user == Open(<<Writes("auth.register")>>, Always(500))
update_user == User(<<Writes("user.update")>>, Always(500))
delete_user == Admin(<<Writes("user.delete")>>, Relaying)
assign_role == Admin(<<Writes("user.assign_role")>>, Always(500))
revoke_role == Admin(<<Writes("user.revoke_role")>>, Always(500))

(* Sessions and logins *)
get_session == [Admin(<<Reads("session.read")>>, Relaying) EXCEPT !.empty = 1 :> 404]
list_sessions ==
  [Admin(<<Reads("session.search_sessions")>>, Relaying) EXCEPT !.empty = 1 :> 404]
deactivate_session ==
  [Admin(<<Reads("session.read"), Writes("session.delete")>>, Relaying)
     EXCEPT !.empty = 1 :> 404]
login == [Open(<<Writes("auth.login")>>, Relaying) EXCEPT !.empty = 1 :> 401]
refresh_token ==
  [Open(<<Writes("session.refresh")>>, [Relaying EXCEPT !.missing = 401])
     EXCEPT !.refuses = {401}]
logout == Open(<<Writes("auth.logout")>>, Relaying)
forgot_password == Open(<<Acts("password.request_reset")>>, Relaying)
reset_password_endpoint ==
  Open(<<Writes("password.reset_password")>>, [Relaying EXCEPT !.invalid = 400])

(* Articles *)
list_articles == Open(<<Reads("article.list_public")>>, Relaying)
get_article == Open(<<Reads("article.get_public")>>, Finding)
list_admin == Admin(<<Reads("article.list_admin")>>, Relaying)
get_admin == Admin(<<Reads("article.get_admin")>>, Finding)
create_article == Admin(<<Writes("article.create")>>, Relaying)
update_article == Admin(<<Writes("article.update")>>, [Finding EXCEPT !.invalid = 400])
publish_article == Admin(<<Writes("article.publish")>>, Finding)
delete_article == Admin(<<Writes("article.delete")>>, Finding)

(* eBay listings and orders *)
create_listing ==
  [User(<<Acts("listings.create")>>, CheckingOnly) EXCEPT !.refuses = {400}]
build_and_create_listing ==
  [User(<<Acts("listings.build_and_create"), Writes("listings.track_active_listing")>>,
        CheckingOnly) EXCEPT !.refuses = {400}, !.tolerates = {2}]
get_active_listings == User(<<Reads("listings.active")>>, CheckingOnly)
get_order_history == User(<<Reads("fulfillment.history")>>, CheckingOnly)
update_listing == [User(<<Acts("listings.update")>>, CheckingOnly) EXCEPT !.refuses = {400}]
end_listing == User(<<Acts("listings.end")>>, CheckingOnly)
upload_listing_picture ==
  [User(<<Acts("listings.upload_picture")>>, CheckingOnly) EXCEPT !.refuses = {400, 413}]
fulfill_order == User(<<Acts("fulfillment.ship")>>, CheckingOnly)
patch_order_status ==
  [User(<<Writes("fulfillment.local_status")>>, CheckingOnly) EXCEPT !.refuses = {400}]
get_local_order_history == User(<<Fails("local_sales.list")>>, Always(500))

(* eBay recommendations and market prices *)
get_recommendation == User(<<Reads("recommendations.get")>>, Checking)
stage_action == User(<<Writes("actions.stage")>>, Checking)
get_pending_action == User(<<Reads("actions.get_pending")>>, Checking)
get_listing_price_trend ==
  User(<<Reads("recommendations.trend")>>, [Relaying EXCEPT !.invalid = 404])
get_market_price == User(<<Reads("market_price")>>, Checking)

(* eBay apps, tokens, scopes and search: no service is registered under    *)
(* get_token, and register_scope is a coroutine that nobody awaits *)
list_user_apps == User(<<Reads("ebay.list_user_apps")>>, Relaying)
get_app_rate_limits ==
  User(<<Reads("ebay.get_environment"), Reads("ebay.get_app_rate_limits")>>, Relaying)
regist_app == Admin(<<Fails("ebay.register_app")>>, [Relaying EXCEPT !.conflict = 400])
login_app == User(<<Reads("ebay.get_environment"), Writes("ebay.start_oauth_flow")>>, Relaying)
handle_ebay_callback ==
  [Open(<<Reads("ebay.get_environment_callback"), Acts("ebay.process_callback")>>, Relaying)
     EXCEPT !.refuses = {302}]
update_redirect_uri == User(<<Writes("ebay.update_app_redirect_uri")>>, Relaying)
do_exange_refresh_token ==
  User(<<Reads("ebay.get_environment"), Acts("ebay.exchange_refresh_token")>>, Relaying)
list_scopes == Open(<<Reads("ebay.get_scopes_by_environment")>>, Always(500))
regist_scope == Open(<<Forgets("register_scope")>>, Always(400))
make_get_request ==
  [Open(<<Fails("ebay.get_token"), Reads("ebay.get_environment"), Reads("ebay.search")>>,
        Relaying) EXCEPT !.refuses = {500}]

(* Shopify: the services of data_loading are registered under other names  *)
load_data == Admin(<<Fails("shopify.load_data")>>, Always(500))
stage_data == Admin(<<Fails("shopify.stage_data")>>, Always(500))
post_theme == Admin(<<Writes("theme.add")>>, Relaying)
post_collection_theme == Admin(<<Writes("theme.add_collection_theme")>>, Relaying)
post_collection == Admin(<<Writes("collection_handle.add")>>, Relaying)
post_bulk_collections == Admin(<<Writes("collection_handle.add_many")>>, Relaying)
post_market == Admin(<<Writes("market.add")>>, Relaying)
get_market == User(<<Reads("market.get")>>, Relaying)
get_all_markets == User(<<Reads("market.get")>>, Relaying)

(* MTGStock, which only queues work, the agent and the integrity checks    *)
stage_mtgstock == Open(<<Acts("mtgStock_download_pipeline.delay")>>, Always(500))
load_full_scraper == Open(<<Acts("chain.apply_async")>>, Always(500))
load_selected_ids == [Open(<<Acts("chain.apply_async")>>, Always(500)) EXCEPT !.refuses = {400}]
agent_chat == [User(<<Acts("run_agent_turn")>>, Always(503)) EXCEPT !.refuses = {503}]
get_scryfall_run_diff == Open(<<Reads("integrity.scryfall_run_diff")>>, Relaying)
get_scryfall_integrity == Open(<<Reads("integrity.scryfall_integrity")>>, Relaying)
get_public_schema_leak == Open(<<Reads("integrity.public_schema_leak")>>, Relaying)

-----------------------------------------------------------------------------
AllHandlers ==
  [suggest_cards |-> suggest_cards, get_catalog_stats |-> get_catalog_stats,
   get_versions_in_set |-> get_versions_in_set,
   get_other_sets |-> get_other_sets, get_card |-> get_card,
   get_card_price_history |-> get_card_price_history,
   get_card_prices |-> get_card_prices, list_cards |-> list_cards,
   insert_card |-> insert_card, bulk_insert_cards |-> bulk_insert_cards,
   delete_card |-> delete_card, test_service |-> test_service,
   browse_sets |-> browse_sets, get_set |-> get_set, list_sets |-> list_sets,
   insert_set |-> insert_set, bulk_insert_sets |-> bulk_insert_sets,
   update_set |-> update_set, delete_set |-> delete_set,
   get_sealed_prices_by_set |-> get_sealed_prices_by_set,
   get_sealed_price_history |-> get_sealed_price_history,
   create_collection |-> create_collection, get_collection |-> get_collection,
   list_collections |-> list_collections,
   update_collection |-> update_collection,
   delete_collection |-> delete_collection, add_entry |-> add_entry,
   list_entries |-> list_entries, get_entry |-> get_entry,
   update_entry_status |-> update_entry_status, delete_entry |-> delete_entry,
   get_me |-> get_me, list_users |-> list_users,
   register_user |-> register_user, update_user |-> update_user,
   delete_user |-> delete_user, assign_role |-> assign_role,
   revoke_role |-> revoke_role, get_session |-> get_session,
   list_sessions |-> list_sessions, deactivate_session |-> deactivate_session,
   login |-> login, refresh_token |-> refresh_token, logout |-> logout,
   forgot_password |-> forgot_password,
   reset_password_endpoint |-> reset_password_endpoint,
   list_articles |-> list_articles, get_article |-> get_article,
   list_admin |-> list_admin, get_admin |-> get_admin,
   create_article |-> create_article, update_article |-> update_article,
   publish_article |-> publish_article, delete_article |-> delete_article,
   create_listing |-> create_listing,
   build_and_create_listing |-> build_and_create_listing,
   get_active_listings |-> get_active_listings,
   get_order_history |-> get_order_history, update_listing |-> update_listing,
   end_listing |-> end_listing,
   upload_listing_picture |-> upload_listing_picture,
   fulfill_order |-> fulfill_order, patch_order_status |-> patch_order_status,
   get_local_order_history |-> get_local_order_history,
   get_recommendation |-> get_recommendation, stage_action |-> stage_action,
   get_pending_action |-> get_pending_action,
   get_listing_price_trend |-> get_listing_price_trend,
   get_market_price |-> get_market_price, list_user_apps |-> list_user_apps,
   get_app_rate_limits |-> get_app_rate_limits, regist_app |-> regist_app,
   login_app |-> login_app, handle_ebay_callback |-> handle_ebay_callback,
   update_redirect_uri |-> update_redirect_uri,
   do_exange_refresh_token |-> do_exange_refresh_token,
   list_scopes |-> list_scopes, regist_scope |-> regist_scope,
   make_get_request |-> make_get_request, load_data |-> load_data,
   stage_data |-> stage_data, post_theme |-> post_theme,
   post_collection_theme |-> post_collection_theme,
   post_collection |-> post_collection,
   post_bulk_collections |-> post_bulk_collections,
   post_market |-> post_market, get_market |-> get_market,
   get_all_markets |-> get_all_markets, stage_mtgstock |-> stage_mtgstock,
   load_full_scraper |-> load_full_scraper,
   load_selected_ids |-> load_selected_ids, agent_chat |-> agent_chat,
   get_scryfall_run_diff |-> get_scryfall_run_diff,
   get_scryfall_integrity |-> get_scryfall_integrity,
   get_public_schema_leak |-> get_public_schema_leak]
=============================================================================
