------------------------------- MODULE Articles -------------------------------
(***************************************************************************)
(* The articles that admins write: create, which looks for a slug that is  *)
(* free and inserts with it, update, publish, unpublish and delete.        *)
(* Creations run at the same time, each in a transaction of its own.       *)
(***************************************************************************)
EXTENDS Naturals, Sequences

CONSTANTS
  Titles,       \* titles
  Candidates,   \* per title, its slug and the numbered slugs tried after it
  Articles,     \* article ids
  Writers       \* creations that run at the same time

Slugs == UNION {{Candidates[t][n] : n \in DOMAIN Candidates[t]} : t \in Titles}

ASSUME ArticlesAssumption ==
  \A t \in Titles : Candidates[t] \in Seq(Slugs) /\ Len(Candidates[t]) > 0

VARIABLES
  article,   \* content.article, by id
  writing,   \* per creation, its title and how many slugs it has found taken
  given      \* history: slugs under which an article was public

articleVars == <<article, writing, given>>

NoArticle == [slug |-> "", status |-> "none"]
NotWriting == [at |-> "rest", title |-> "", n |-> 0]

ArticlesInit ==
  /\ article = [i \in Articles |-> NoArticle]
  /\ writing = [w \in Writers |-> NotWriting]
  /\ given = {}

Stored == {i \in Articles : article[i] # NoArticle}

(* exists_slug *)
SlugTaken(slug) == \E i \in Stored : article[i].slug = slug

Candidate(w) == Candidates[writing[w].title][writing[w].n]

(* create_article, and _unique_slug asking for one candidate after the     *)
(* other; the bound on n is that of Candidates                             *)
Begin(w, t) ==
  /\ writing[w] = NotWriting
  /\ writing' = [writing EXCEPT ![w] = [at |-> "asking", title |-> t, n |-> 1]]
  /\ UNCHANGED <<article, given>>

Ask(w) ==
  /\ writing[w].at = "asking"
  /\ IF SlugTaken(Candidate(w))
     THEN /\ writing[w].n < Len(Candidates[writing[w].title])
          /\ writing' = [writing EXCEPT ![w].n = @ + 1]
     ELSE writing' = [writing EXCEPT ![w].at = "inserting"]
  /\ UNCHANGED <<article, given>>

(* insert_article: the slug is UNIQUE *)
Insert(w, i) ==
  /\ writing[w].at = "inserting" /\ article[i] = NoArticle
  /\ ~SlugTaken(Candidate(w))
  /\ article' = [article EXCEPT ![i] = [slug |-> Candidate(w), status |-> "draft"]]
  /\ writing' = [writing EXCEPT ![w] = NotWriting]
  /\ UNCHANGED given

(* 409 when somebody else took the slug that was free, or any other error  *)
FailToCreate(w) ==
  /\ writing[w] # NotWriting
  /\ writing' = [writing EXCEPT ![w] = NotWriting]
  /\ UNCHANGED <<article, given>>

(* update_article: a new title leaves the slug as it is *)
Update(i) ==
  /\ i \in Stored
  /\ UNCHANGED articleVars

(* update_publish_status *)
Publish(i) ==
  /\ i \in Stored
  /\ article' = [article EXCEPT ![i].status = "published"]
  /\ given' = given \cup {<<article[i].slug, i>>}
  /\ UNCHANGED writing

Unpublish(i) ==
  /\ i \in Stored
  /\ article' = [article EXCEPT ![i].status = "draft"]
  /\ UNCHANGED <<writing, given>>

(* delete_article; its id is drawn at random and never comes back, which   *)
(* the history of its links stands for *)
Remove(i) ==
  /\ i \in Stored
  /\ article' = [article EXCEPT ![i] = NoArticle]
  /\ given' = {g \in given : g[2] # i}
  /\ UNCHANGED writing

ArticlesNext ==
  \/ \E w \in Writers :
       \/ \E t \in Titles : Begin(w, t)
       \/ Ask(w) \/ FailToCreate(w)
       \/ \E i \in Articles : Insert(w, i)
  \/ \E i \in Articles : Update(i) \/ Publish(i) \/ Unpublish(i) \/ Remove(i)

ArticlesSpec == ArticlesInit /\ [][ArticlesNext]_articleVars

-----------------------------------------------------------------------------
(* Every variable has its type.                                            *)
ArticlesTypeOK ==
  /\ article \in [Articles -> [slug : Slugs, status : {"draft", "published"}] \cup {NoArticle}]
  /\ writing \in [Writers -> [at : {"asking", "inserting"}, title : Titles, n : Nat]
                             \cup {NotWriting}]
  /\ \A w \in Writers : writing[w] # NotWriting =>
       writing[w].n \in DOMAIN Candidates[writing[w].title]
  /\ given \subseteq Slugs \X Articles

(* get_by_slug finds at most one article, and whoever has the link of an   *)
(* article that was public finds it there for as long as it exists, while  *)
(* others are written, renamed and published at the same time.             *)
LinksLead ==
  /\ \A i, j \in Stored : article[i].slug = article[j].slug => i = j
  /\ \A g \in given : article[g[2]].slug = g[1]
=============================================================================
