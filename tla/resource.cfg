\* The table, the roots and the index of MCResource; URIs of up to four parts.
SPECIFICATION Spec
CONSTANTS
    Letters = {"i", "k"}
    MaxUri = 4
    Roots <- MCRoots
    Index <- MCIndex
    Rows <- MCRows
    NumResps = 2
    Answers <- MCAnswers
INVARIANT KnownFileTyped
INVARIANT FileBelowRoot
INVARIANT AnswerOfOneResponder
