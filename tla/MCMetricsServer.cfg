\* Four scrapes, three bodies, two lives of the server.
CONSTANTS
    Scrapes = {s1, s2, s3, s4}
    Collections = {c1, c2}
    MaxVersion = 3
    MaxStarts = 2
SPECIFICATION FairSpec
INVARIANTS
    AnswersAdvance
PROPERTIES
    ScrapesSettle
CHECK_DEADLOCK FALSE
