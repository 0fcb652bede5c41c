SPECIFICATION Spec
CONSTANTS
    j1 = j1  j2 = j2  j3 = j3  c1 = c1  c2 = c2
    Jobs = {j1, j3}
    Requests = {r1}
    Courses = {c1, c2}
    CourseOf <- MCCourseOf
    MaxWorkers = 2
    None = None
    Contained = TRUE
    DbFaults = TRUE
INVARIANT OnePipeline
   
CHECK_DEADLOCK FALSE
