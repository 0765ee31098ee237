-------------------------- MODULE MCTopicRegistration --------------------------
(* Instances of TopicRegistration for TLC. *)
EXTENDS TopicBoards, TLC

CONSTANTS s1, s2, s3, t1, t2, u1, u2, r1, r2, f1, f2

OneStudent    == {s1}
TwoStudents   == {s1, s2}
ThreeStudents == {s1, s2, s3}
OneTopic      == {t1}
TwoTopics     == {t1, t2}
OneTeacher    == {u1}
TwoTeachers   == {u1, u2}
OneFaculty    == {f1}
TwoFaculties  == {f1, f2}
OneRequest    == {r1}
TwoRequests   == {r1, r2}

\* One id more than there are requests, so that a fresh one always exists.
TwoIds   == 1 .. 2
ThreeIds == 1 .. 3

\* Students, topics, teachers and requests are interchangeable.
FullSymmetry == Permutations(Student) \cup Permutations(Topic)
                   \cup Permutations(Teacher) \cup Permutations(Request)

=============================================================================
