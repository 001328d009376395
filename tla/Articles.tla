------------------------------ MODULE Articles ------------------------------
(***************************************************************************)
(* Articles: drafts, moderation, public reading, likes and comments        *)
(* (services/article.py), and the scripts that seed them (cli/seed_*.py);  *)
(* attachments, titles and texts are left out.                             *)
(*                                                                         *)
(* One SQL session per request, PostgreSQL at READ COMMITTED: what a       *)
(* request flushed is seen by its own queries only, until its commit.  The *)
(* stored counters are recounted by two COUNT queries, then written by an  *)
(* UPDATE just before the commit.                                          *)
(***************************************************************************)
EXTENDS Integers, FiniteSets

CONSTANTS
  Articles, Commentaires, Likes, \* rows that may be inserted
  Utilisateurs,
  Staff,   \* admins and moderators
  Requetes,
  VuesSemees, \* view counts drawn by the scripts
  MaxLancees, \* bound: requests started
  Aucun

ASSUME HypStaff == Staff \subseteq Utilisateurs
ASSUME HypVues  == VuesSemees \subseteq Nat
ASSUME HypBorne == MaxLancees \in Nat
ASSUME HypFinis == IsFiniteSet(Utilisateurs) /\ IsFiniteSet(Likes) /\ IsFiniteSet(Commentaires)

Reserves == {"published", "rejected", "changes_requested"}
Statuts  == {"draft", "waiting_validation"} \cup Reserves
\* toggle_like: the POST ("aimer") and the DELETE ("retirer") of a like.
Bascule  == {"aimer", "retirer"}
Moderations == {"approuver", "rejeter", "corriger"}
Operations  == Bascule \cup Moderations \cup
  {"modifier", "voir", "commenter", "decommenter", "semer"}

ASSUME HypAucun ==
  Aucun \notin Operations \cup Statuts \cup Articles \cup Commentaires \cup Utilisateurs

VARIABLES
  article,     \* articles; date: published_at is set
  aime,        \* article_likes: the rows of each user
  commentaire, \* article_comments
  req,         \* each request: what it read, what it flushed
  lectures,    \* what views started from, and the public reads served: read by no action
  semes,       \* articles a script created: read by no action
  lancees      \* requests started, for the bound

vars == <<article, aime, commentaire, req, lectures, semes, lancees>>

SansArticle == [statut |-> Aucun, auteur |-> Aucun, date |-> FALSE, supprime |-> FALSE,
                vues |-> 0, likes |-> 0, comments |-> 0]
SansCommentaire == [article |-> Aucun, auteur |-> Aucun, supprime |-> FALSE]
\* `lu`, `vues`: what was read; `statut`, `date`, `champs`, `ecrit`: what is
\* flushed (`ecrit`: the rows of each user); `likes`, `comments`: what was
\* counted; `seul`: nobody else was counting the same article.
Repos == [etape |-> "repos", op |-> Aucun, qui |-> Aucun, a |-> Aucun, c |-> Aucun,
          lu |-> {}, date |-> FALSE, vues |-> 0, statut |-> Aucun, champs |-> FALSE,
          ecrit |-> [u \in Utilisateurs |-> {}], likes |-> 0, comments |-> 0, seul |-> TRUE]

Existe(a)       == article[a].statut # Aucun
Visible(a)      == Existe(a) /\ ~article[a].supprime
Publie(a)       == Visible(a) /\ article[a].statut = "published"
Peut(u, auteur) == u \in Staff \/ u = auteur
Debuter(r, f)   == /\ req[r].etape = "repos" /\ lancees < MaxLancees
                   /\ req' = [req EXCEPT ![r] = f] /\ lancees' = lancees + 1
Finir(r)        == req' = [req EXCEPT ![r] = Repos]

\* Requests between their first write and their commit.
Comptent == {"semer", "compter_likes", "compter_comments", "enregistrer"}
Concurrents(r) == {q \in Requetes \ {r} : req[q].a = req[r].a /\ req[q].etape \in Comptent}
\* r enters that section, as f.
Entrer(r, f) ==
  req' = [q \in Requetes |->
    IF q = r THEN [f EXCEPT !.etape = IF f.op = "semer" THEN "semer" ELSE "compter_likes",
                            !.seul = Concurrents(r) = {}]
    ELSE IF q \in Concurrents(r) THEN [req[q] EXCEPT !.seul = FALSE] ELSE req[q]]

\* update_article and the scripts hold the row of the article from their first
\* UPDATE.
Verrou(a, r) ==
  ~article[a].supprime /\ \E q \in Concurrents(r) : req[q].a = a /\ req[q].champs

-----------------------------------------------------------------------------
(* Authors *)

StatutCree(u, s) == IF u \notin Staff /\ s \in Reserves THEN "waiting_validation" ELSE s

Nouveau(u, statut, vues) ==
  [SansArticle EXCEPT !.statut = statut, !.auteur = u, !.date = (statut = "published"), !.vues = vues]

Creer(a, u, s) ==
  /\ ~Existe(a)
  /\ article' = [article EXCEPT ![a] = Nouveau(u, StatutCree(u, s), 0)]
  /\ UNCHANGED <<aime, commentaire, req, lectures, semes, lancees>>

\* The statut asked for; Aucun: not in the form.
\* (mutant: an author publishes an article he edits)
StatutDemandeTel(u, s) == s
StatutDemande(u, s) == IF u \notin Staff /\ s = "published" THEN "waiting_validation" ELSE s

\* published_at is set by a publication that finds it empty.
\* (mutant: only an approval sets it)
SansDate(a, statut) == FALSE
Dater(a, statut) == statut = "published" /\ ~article[a].date

\* get_owned_or_404; `champs`: the form changes a column of the article.
LireModification(r, u, a, s, champs) ==
  /\ Existe(a) /\ Peut(u, article[a].auteur)
  /\ u \notin Staff => s \notin {"rejected", "changes_requested"}
  /\ s # Aucun => champs
  /\ Debuter(r, [Repos EXCEPT !.etape = "ecrire", !.op = "modifier", !.qui = u, !.a = a,
                   !.statut = StatutDemande(u, s), !.date = Dater(a, StatutDemande(u, s)),
                   !.champs = champs])
  /\ UNCHANGED <<article, aime, commentaire, lectures, semes>>

EcrireModification(r) ==
  /\ req[r].etape = "ecrire" /\ req[r].op = "modifier"
  /\ req[r].champs => ~Verrou(req[r].a, r)
  /\ Entrer(r, req[r])
  /\ UNCHANGED <<article, aime, commentaire, lectures, semes, lancees>>

Supprimer(u, a) ==
  /\ Visible(a) /\ Peut(u, article[a].auteur)
  /\ ~\E q \in Requetes : req[q].a = a /\ req[q].champs /\ req[q].etape \in Comptent
  /\ article' = [article EXCEPT ![a].supprime = TRUE]
  /\ UNCHANGED <<aime, commentaire, req, lectures, semes, lancees>>

-----------------------------------------------------------------------------
(* Moderators *)

Verdict(op) == CASE op = "approuver" -> "published"
                 [] op = "rejeter"   -> "rejected"
                 [] op = "corriger"  -> "changes_requested"

LireModeration(r, u, a, op) ==
  /\ u \in Staff /\ Existe(a)
  /\ Debuter(r, [Repos EXCEPT !.etape = "moderer", !.op = op, !.qui = u, !.a = a])
  /\ UNCHANGED <<article, aime, commentaire, lectures, semes>>

\* Whatever the statut has become.
Moderer(r) ==
  LET q == req[r] IN
  /\ q.etape = "moderer" /\ ~Verrou(q.a, r)
  /\ article' = IF article[q.a].supprime THEN article
                ELSE [article EXCEPT ![q.a].statut = Verdict(q.op),
                                     ![q.a].date = @ \/ q.op = "approuver"]
  /\ Finir(r)
  /\ UNCHANGED <<aime, commentaire, lectures, semes, lancees>>

-----------------------------------------------------------------------------
(* Readers *)

LireArticle(r, a) ==
  /\ Publie(a)
  /\ Debuter(r, [Repos EXCEPT !.etape = "voir", !.op = "voir", !.a = a, !.vues = article[a].vues])
  /\ UNCHANGED <<article, aime, commentaire, lectures, semes>>

\* SET view_count = view_count + 1
\* (mutant: the value that was loaded, plus one)
VuesLues(r) == req[r].vues + 1
Vues(r) == article[req[r].a].vues + 1

Voir(r) ==
  LET a == req[r].a IN
  /\ req[r].etape = "voir" /\ ~Verrou(a, r)
  /\ IF article[a].supprime THEN UNCHANGED <<article, lectures>>
     ELSE /\ article'  = [article EXCEPT ![a].vues = Vues(r)]
          /\ lectures' = [lectures EXCEPT ![a] = @ + 1]
  /\ Finir(r)
  /\ UNCHANGED <<aime, commentaire, semes, lancees>>

LireLike(r, u, a, op) ==
  /\ Publie(a)
  /\ Debuter(r, [Repos EXCEPT !.etape = "ecrire", !.op = op, !.qui = u, !.a = a,
                              !.lu = aime[a][u]])
  /\ UNCHANGED <<article, aime, commentaire, lectures, semes>>

\* Whose likes r writes, and whose it inserts.
Aimeurs(r) == IF req[r].op \in Bascule THEN {req[r].qui}
              ELSE {u \in Utilisateurs : req[r].ecrit[u] # {}}
Nouveaux(r) == IF req[r].op \in Bascule /\ req[r].lu # {} THEN {} ELSE Aimeurs(r)

\* The same user's like, flushed by another request: wait for its commit.
MemeLike(r) ==
  \E q \in Concurrents(r) : req[q].etape # "semer" /\ Aimeurs(q) \cap Aimeurs(r) # {}

\* uq_article_like_user: the INSERT fails.
\* (mutant: there is no such constraint)
RefuseSansContrainte(r) == FALSE
Refuse(r) == \E u \in Nouveaux(r) : aime[req[r].a][u] # {}

LikeNeuf(l) == /\ \A a \in Articles, u \in Utilisateurs : l \notin aime[a][u]
               /\ \A q \in Requetes : l \notin req[q].lu /\ \A u \in Utilisateurs : l \notin req[q].ecrit[u]
CommentaireNeuf(c) == commentaire[c] = SansCommentaire /\ \A q \in Requetes : req[q].c # c

\* INSERT of a new row if none was read, else DELETE of the one read (which may
\* be gone: a warning only).
EcrireLike(r, l) ==
  LET q == req[r] IN
  /\ q.etape = "ecrire" /\ q.op \in Bascule /\ ~MemeLike(r)
  /\ LikeNeuf(l)
  /\ IF Refuse(r) THEN Finir(r)
     ELSE Entrer(r, [q EXCEPT !.ecrit[q.qui] = IF q.lu = {} THEN {l} ELSE {}])
  /\ UNCHANGED <<article, aime, commentaire, lectures, semes, lancees>>

\* create_comment (the parent, a comment of the same article, changes nothing).
LireCommenter(r, u, a) ==
  /\ Visible(a) /\ (Peut(u, article[a].auteur) \/ Publie(a))
  /\ Debuter(r, [Repos EXCEPT !.etape = "ecrire", !.op = "commenter", !.qui = u, !.a = a])
  /\ UNCHANGED <<article, aime, commentaire, lectures, semes>>

EcrireCommentaire(r, c) ==
  /\ req[r].etape = "ecrire" /\ req[r].op = "commenter"
  /\ CommentaireNeuf(c)
  /\ Entrer(r, [req[r] EXCEPT !.c = c])
  /\ UNCHANGED <<article, aime, commentaire, lectures, semes, lancees>>

\* delete_comment
LireDecommenter(r, u, c) ==
  /\ commentaire[c] # SansCommentaire /\ Peut(u, commentaire[c].auteur)
  /\ Debuter(r, [Repos EXCEPT !.etape = "ecrire", !.op = "decommenter", !.qui = u,
                              !.a = commentaire[c].article, !.c = c])
  /\ UNCHANGED <<article, aime, commentaire, lectures, semes>>

\* UPDATE ... WHERE deleted_at IS NULL: 404 if no row is touched.
EcrireDecommenter(r) ==
  LET q == req[r] IN
  /\ q.etape = "ecrire" /\ q.op = "decommenter"
  /\ \A p \in Concurrents(r) : req[p].c # q.c
  /\ IF commentaire[q.c].supprime THEN Finir(r) ELSE Entrer(r, q)
  /\ UNCHANGED <<article, aime, commentaire, lectures, semes, lancees>>

-----------------------------------------------------------------------------
(* set_counters, and the commit *)

NbLikes(t, a)    == Cardinality({x \in Utilisateurs \X Likes : x[2] \in t[a][x[1]]})
NbComments(t, a) == Cardinality({c \in Commentaires : t[c].article = a /\ ~t[c].supprime})

\* The tables once r is committed.
AimeSelon(r) ==
  IF req[r].a = Aucun THEN aime
  ELSE [aime EXCEPT ![req[r].a] =
         [u \in Utilisateurs |-> (@[u] \ req[r].lu) \cup req[r].ecrit[u]]]
CommentairesSelon(r) ==
  CASE req[r].op \in {"commenter", "semer"} /\ req[r].c # Aucun ->
         [commentaire EXCEPT ![req[r].c] =
            [article |-> req[r].a, auteur |-> req[r].qui, supprime |-> FALSE]]
    [] req[r].op = "decommenter" -> [commentaire EXCEPT ![req[r].c].supprime = TRUE]
    [] OTHER -> commentaire

\* A request counts what is committed and what it flushed itself.
\* (mutant: it counts before it writes)
LikesVusAvant(r) == NbLikes(aime, req[r].a)
LikesVus(r) == NbLikes(AimeSelon(r), req[r].a)

CompterLikes(r) ==
  /\ req[r].etape = "compter_likes"
  /\ req' = [req EXCEPT ![r].etape = "compter_comments", ![r].likes = LikesVus(r)]
  /\ UNCHANGED <<article, aime, commentaire, lectures, semes, lancees>>

CompterCommentaires(r) ==
  /\ req[r].etape = "compter_comments"
  /\ req' = [req EXCEPT ![r].etape = "enregistrer",
                        ![r].comments = NbComments(CommentairesSelon(r), req[r].a)]
  /\ UNCHANGED <<article, aime, commentaire, lectures, semes, lancees>>

\* A script's UPDATE tests only the id, and leaves alone a counter it added
\* nothing to.
Ajoute(r, rien) == req[r].op # "semer" \/ ~rien

Enregistrer(r) ==
  LET q == req[r] IN
  /\ q.etape = "enregistrer" /\ ~Verrou(q.a, r)
  /\ aime' = AimeSelon(r) /\ commentaire' = CommentairesSelon(r)
  /\ article' = IF article[q.a].supprime /\ q.op # "semer" THEN article
                ELSE [article EXCEPT
                       ![q.a].statut = IF q.statut = Aucun THEN @ ELSE q.statut,
                       ![q.a].date = @ \/ q.date,
                       ![q.a].likes = IF Ajoute(r, Aimeurs(r) = {}) THEN q.likes ELSE @,
                       ![q.a].comments = IF Ajoute(r, q.c = Aucun) THEN q.comments ELSE @]
  /\ Finir(r)
  /\ UNCHANGED <<lectures, semes, lancees>>

-----------------------------------------------------------------------------
(* The scripts: their articles are committed at once; likes and comments     *)
(* come in a second transaction, for all the articles, followed here on one  *)

\* _build_article: any user's, published if asked for, with views drawn at random.
Semer(a, u, s, v) ==
  /\ ~Existe(a)
  /\ article' = [article EXCEPT ![a] = Nouveau(u, s, v)]
  /\ lectures' = [lectures EXCEPT ![a] = v]
  /\ semes' = semes \cup {a}
  /\ UNCHANGED <<aime, commentaire, req, lancees>>

\* _list_all_articles: an article, its likes, its counters; then the users drawn
\* among those who do not like it, but for its author.  c, u: the comment added
\* and its author (bound: one comment, or none).
LireSemis(r, a, U, c, u) ==
  /\ Visible(a)
  /\ \A v \in U : v # article[a].auteur /\ aime[a][v] = {}
  /\ c # Aucun => CommentaireNeuf(c)
  /\ U # {} \/ c # Aucun
  /\ \E l \in [U -> Likes] :
       /\ \A v \in U : LikeNeuf(l[v]) /\ \A w \in U \ {v} : l[v] # l[w]
       /\ Debuter(r, [Repos EXCEPT !.etape = "ecrire", !.op = "semer", !.a = a, !.champs = TRUE,
            !.qui = u, !.c = c, !.likes = article[a].likes + Cardinality(U),
            !.comments = article[a].comments + (IF c = Aucun THEN 0 ELSE 1),
            !.ecrit = [v \in Utilisateurs |-> IF v \in U THEN {l[v]} ELSE {}]])
  /\ UNCHANGED <<article, aime, commentaire, lectures, semes>>

\* The flush of the commit: the counters first, then the rows.
EcrireSemis(r) ==
  /\ req[r].etape = "ecrire" /\ req[r].op = "semer" /\ ~Verrou(req[r].a, r)
  /\ Entrer(r, req[r])
  /\ UNCHANGED <<article, aime, commentaire, lectures, semes, lancees>>

InsererSemis(r) ==
  /\ req[r].etape = "semer" /\ ~MemeLike(r)
  /\ IF Refuse(r) THEN Finir(r) ELSE req' = [req EXCEPT ![r].etape = "enregistrer"]
  /\ UNCHANGED <<article, aime, commentaire, lectures, semes, lancees>>

\* A crash, a file that cannot be saved, the victim of a deadlock: rollback.
Abandonner(r) ==
  /\ req[r].etape # "repos"
  /\ Finir(r)
  /\ UNCHANGED <<article, aime, commentaire, lectures, semes, lancees>>

Init ==
  /\ article     = [a \in Articles |-> SansArticle]
  /\ aime        = [a \in Articles |-> [u \in Utilisateurs |-> {}]]
  /\ commentaire = [c \in Commentaires |-> SansCommentaire]
  /\ req         = [r \in Requetes |-> Repos]
  /\ lectures    = [a \in Articles |-> 0]
  /\ semes       = {}
  /\ lancees     = 0

Lire(r, u) ==
  \/ \E a \in Articles :
       \/ \E s \in Statuts \cup {Aucun}, champs \in BOOLEAN : LireModification(r, u, a, s, champs)
       \/ \E op \in Moderations : LireModeration(r, u, a, op)
       \/ \E op \in Bascule : LireLike(r, u, a, op)
       \/ LireCommenter(r, u, a)
  \/ \E c \in Commentaires : LireDecommenter(r, u, c)

Avancer(r) ==
  \/ \E u \in Utilisateurs : Lire(r, u)
  \/ \E a \in Articles : LireArticle(r, a)
  \/ \E a \in Articles, U \in SUBSET Utilisateurs, c \in Commentaires \cup {Aucun} :
       \E u \in (IF c = Aucun THEN {Aucun} ELSE Utilisateurs) : LireSemis(r, a, U, c, u)
  \/ EcrireSemis(r) \/ InsererSemis(r)
  \/ \E l \in Likes : EcrireLike(r, l)
  \/ \E c \in Commentaires : EcrireCommentaire(r, c)
  \/ EcrireModification(r) \/ EcrireDecommenter(r) \/ Moderer(r) \/ Voir(r)
  \/ CompterLikes(r) \/ CompterCommentaires(r) \/ Enregistrer(r) \/ Abandonner(r)

Next ==
  \/ \E r \in Requetes : Avancer(r)
  \/ \E a \in Articles, u \in Utilisateurs :
       \/ Supprimer(u, a)
       \/ \E s \in Statuts : Creer(a, u, s)
       \/ \E s \in {"draft", "published"}, v \in VuesSemees : Semer(a, u, s, v)

Spec == Init /\ [][Next]_vars

-----------------------------------------------------------------------------
(* Properties *)

\* Types; and a user likes an article at most once, however many times at once
\* he asks.
TypeOK ==
  /\ article \in [Articles ->
       [statut : Statuts \cup {Aucun}, auteur : Utilisateurs \cup {Aucun}, date : BOOLEAN,
        supprime : BOOLEAN, vues : Nat, likes : Nat, comments : Nat]]
  /\ aime \in [Articles -> [Utilisateurs -> SUBSET Likes]]
  /\ commentaire \in [Commentaires ->
       [article : Articles \cup {Aucun}, auteur : Utilisateurs \cup {Aucun}, supprime : BOOLEAN]]
  /\ lectures \in [Articles -> Nat] /\ semes \subseteq Articles /\ lancees \in 0..MaxLancees
  /\ \A a \in Articles, u \in Utilisateurs : Cardinality(aime[a][u]) <= 1

\* No public read of an article is lost, whatever edits and moderations write the
\* same row meanwhile: its views are those it started from plus the reads served.
VuesComptees ==
  \A a \in Articles : article[a].vues = lectures[a]

\* A published article has a date of publication (lists are ordered by it), though
\* whoever publishes decides on the date he read before others wrote.
PublieDate ==
  \A a \in Articles : article[a].statut = "published" => article[a].date

\* An article becomes published only by the staff: an author who edits, creates or
\* resubmits, at whatever moment of a moderation, does not publish it.  (The
\* scripts do.)
PublieParStaff ==
  [][\A a \in Articles : article[a].statut # "published" /\ article'[a].statut = "published" =>
       \/ article[a] = SansArticle /\ (article'[a].auteur \in Staff \/ a \in semes')
       \/ \E r \in Requetes : /\ req[r].a = a /\ req'[r] = Repos /\ req[r].qui \in Staff
                              /\ req[r].op \in {"approuver", "modifier"}]_vars

\* set_counters repairs: a like, a comment or an edit whose writing crossed no other
\* one leaves exact counters, whatever was wrong before it: likes that crossed, or a
\* script, which writes the counters it loaded plus what it adds.
CompteursRepares ==
  [][\A r \in Requetes :
       (Enregistrer(r) /\ req[r].seul /\ req[r].op # "semer" /\ ~article[req[r].a].supprime) =>
         /\ article'[req[r].a].likes = NbLikes(aime', req[r].a)
         /\ article'[req[r].a].comments = NbComments(commentaire', req[r].a)]_vars
=============================================================================
