---------------------------- MODULE ArticleReplication ----------------------------
(***************************************************************************)
(* The replication of knowledge base articles into lessons of the academy. *)
(* kb changes or deletes an article and writes an event; the consumers of  *)
(* kb.article.updated and kb.article.deleted change the lesson that was    *)
(* made from it.  An editor makes the lesson from the content that         *)
(* kb.GetArticle answered some time before the lesson is stored.           *)
(***************************************************************************)
EXTENDS EventBus

CONSTANT Article  \* the article that the lesson is made from; one of Aggregate

ASSUME ArticleAssumption == Article \in Aggregate

VARIABLES
    version,   \* version of each article; 0 once it is deleted
    kind,      \* subject of an event: "updated" or "deleted"
    payload,   \* version that an event carries
    fetched,   \* version that the editor's request holds; 0 for none
    lesson     \* the lesson: how it is bound to the article, and its content

domainVars == <<version, kind, payload, fetched, lesson>>
vars == <<busVars, domainVars>>

\* link and copy are modes of a lesson of a course without versions; draft and
\* published is a kb_link lesson of a course version.
Binding == {"none", "link", "copy", "draft", "published"}
Version == 0..(MaxEvents + 1)

TypeOK ==
    /\ BusTypeOK
    /\ version \in [Aggregate -> Version]
    /\ kind \in [Event -> {"none", "updated", "deleted"}]
    /\ payload \in [Event -> Version]
    /\ fetched \in Version
    /\ lesson \in [binding : Binding, content : Version]

Init ==
    /\ BusInit
    /\ version = [a \in Aggregate |-> 1]
    /\ kind = [e \in Event |-> "none"]
    /\ payload = [e \in Event |-> 0]
    /\ fetched = 0
    /\ lesson = [binding |-> "none", content |-> 0]

-----------------------------------------------------------------------------
(* kb.                                                                     *)

\* UpdateArticle with changed content; RollbackArticle makes the same step.
UpdateArticle(a) ==
    /\ version[a] > 0
    /\ \E e \in Event :
          /\ Emit(e, a)
          /\ kind' = [kind EXCEPT ![e] = "updated"]
          /\ payload' = [payload EXCEPT ![e] = version[a] + 1]
    /\ version' = [version EXCEPT ![a] = @ + 1]
    /\ UNCHANGED <<fetched, lesson>>

DeleteArticle(a) ==
    /\ version[a] > 0
    /\ \E e \in Event :
          /\ Emit(e, a)
          /\ kind' = [kind EXCEPT ![e] = "deleted"]
          /\ UNCHANGED payload
    /\ version' = [version EXCEPT ![a] = 0]
    /\ UNCHANGED <<fetched, lesson>>

-----------------------------------------------------------------------------
(* The editor.                                                             *)

\* kb.GetArticle in CreateLesson or UpdateLesson.
GetArticle ==
    /\ version[Article] > 0
    /\ fetched = 0
    /\ fetched' = version[Article]
    /\ UNCHANGED <<busVars, version, kind, payload, lesson>>

\* The lesson is stored, in the draft version of the course if it has one.
CreateLesson ==
    /\ fetched > 0
    /\ lesson.binding = "none"
    /\ \E b \in {"link", "draft"} : lesson' = [binding |-> b, content |-> fetched]
    /\ fetched' = 0
    /\ UNCHANGED <<busVars, version, kind, payload>>

\* A lesson is made a link (again): it takes the content that was fetched.
UpdateLesson ==
    /\ fetched > 0
    /\ lesson.binding \in {"link", "copy"}
    /\ lesson' = [binding |-> "link", content |-> fetched]
    /\ fetched' = 0
    /\ UNCHANGED <<busVars, version, kind, payload>>

PublishCourseVersion ==
    /\ lesson.binding = "draft"
    /\ lesson' = [lesson EXCEPT !.binding = "published"]
    /\ UNCHANGED <<busVars, version, kind, payload, fetched>>

-----------------------------------------------------------------------------
(* The consumers of the academy.                                           *)

\* An update that also reaches published versions.
ReplicatesPublished == lesson.binding \in {"link", "draft", "published"}

\* ReplicateLinkedArticle and ReplicateLinkedArticleInDraftVersions: neither
\* compares the version of the event with the one the lesson has.
Replicates == lesson.binding \in {"link", "draft"}

HandleKbArticleUpdated(m, k) ==
    /\ kind[m[1]] = "updated"
    /\ HandleOnce(m, k)
    /\ lesson' = IF FirstTime(m) /\ aggregateOf[m[1]] = Article /\ Replicates
                 THEN [lesson EXCEPT !.content = payload[m[1]]]
                 ELSE lesson
    /\ UNCHANGED <<version, kind, payload, fetched>>

HandleKbArticleDeleted(m, k) ==
    /\ kind[m[1]] = "deleted"
    /\ HandleOnce(m, k)
    /\ lesson' = IF FirstTime(m) /\ aggregateOf[m[1]] = Article /\ lesson.binding = "link"
                 THEN [lesson EXCEPT !.binding = "copy"]
                 ELSE lesson
    /\ UNCHANGED <<version, kind, payload, fetched>>

Handle(m, k) == HandleKbArticleUpdated(m, k) \/ HandleKbArticleDeleted(m, k)

-----------------------------------------------------------------------------

Next ==
    \/ \E a \in Aggregate : UpdateArticle(a) \/ DeleteArticle(a)
    \/ GetArticle
    \/ CreateLesson
    \/ UpdateLesson
    \/ PublishCourseVersion
    \/ \E m \in Message, k \in Delivery : Handle(m, k)
    \/ BusStep /\ UNCHANGED domainVars

Spec == Init /\ [][Next]_vars

-----------------------------------------------------------------------------
(* Properties.                                                             *)

\* The content of a published course version never changes, whatever events
\* about its article arrive later.
PublishedFrozen ==
    [][lesson.binding = "published" => lesson' = lesson]_vars

\* Every event was published and handled.
Quiet ==
    /\ \A e \in Event : row[e] \in {"none", "published"}
    /\ \A e \in Event : row[e] = "published" => e \in processed
    /\ fetched = 0

\* Once all events about an article are handled, a lesson that is bound to it
\* has the article's last content.
LessonCurrent ==
    (Quiet /\ lesson.binding = "link" /\ version[Article] > 0)
        => lesson.content = version[Article]

===================================================================================
